---- MODULE Spec2Model ----
(***************************************************************************)
(* Semantic-EPE front end: the recognition panel, the conversion panel and *)
(* the EURING matrix editor, as state machines over their React state, the *)
(* promises their handlers await and the HTTP requests in flight.          *)
(* The FastAPI back end is not part of the sources; where a handler's      *)
(* outcome depends on it, the back end is modelled from the specification  *)
(* (operators marked "back end").                                          *)
(***************************************************************************)
EXTENDS Integers, Sequences, FiniteSets, TLC

\* ------------------------------------------------------------------ bounds

\* Longest ordinary text a user pastes into a panel, in lines.
MaxLines == 2
\* Submissions of a panel's form in one behaviour.
MaxSubmits == 1
\* Longest text a user types into the valid-values box, in lines.
MaxEntries == 2
\* saveEdit and addFieldToVersion calls in one behaviour.
MaxSaves == 1
\* loadDomainData calls of the domain panel suspended at the same time.
MaxRequests == 2

\* ------------------------------------------------------- program constants

\* RecognitionPanel.handleSubmit: if (strings.length > 100)
RecognitionBatchCap == 100
\* ConversionPanel.handleSubmit: if (strings.length > 50)
ConversionBatchCap == 50
\* max_concurrent: 10 in both batch requests
MaxConcurrent == 10
\* validateEuringString: trimmed.length < 20 / > 150
MinStringLength == 20
MaxStringLength == 150

\* ------------------------------------------------------------------ inputs

\* The lines a user can type.  Each stands for one concrete string:
\*   blank    a line of white space only
\*   short    "5320 TA12345"                           (12 characters)
\*   mixed    "5320 TA12345|3|11022023 5215N 01325E"   (pipes and spaces)
\*   garbage  "XXXXXXXXXXXXXXXXXXXXXXXXX"              (no layout matches)
\*   s1966    "5320 TA12345 3 11022023 5215N 01325E 10 2 050 0115 0750"
\*   s2020    "05320|ISA12345|0|09920|3|2|20230521|1430|52.25412|..."
BatchLines == {"garbage", "s1966", "s2020"}
SingleLines == BatchLines \cup {"blank", "short", "mixed"}

Panels == {"recognize", "convert"}
\* Two of the four <option> values of the version selects.
Versions == {"1966", "2020"}

StringLength(s) ==
  CASE s = "blank" -> 0
    [] s = "short" -> 12
    [] s = "mixed" -> 36
    [] s = "garbage" -> 25
    [] s = "s1966" -> 55
    [] OTHER -> 94

HasPipes(s) == s \in {"mixed", "s2020"}
HasSpaces(s) == s \in {"mixed", "s1966"}

\* Sequences over S of length 1..n.
SeqsUpTo(S, n) == UNION {[1..k -> S] : k \in 1..n}

\* A text of n identical lines.
Uniform(n, s) == [i \in 1..n |-> s]

\* No text counts as empty.
NeverBlank(text) == FALSE

\* String.prototype.trim() of the whole text is empty.
IsBlankText(text) == \A i \in 1..Len(text) : text[i] = "blank"

\* .map(line => line.trim()).filter(line => line.length > 0)
NonBlank(line) == line # "blank"
FilterNonBlank(text) == SelectSeq(text, NonBlank)

\* EuringAPI.parseEuringStrings
parseEuringStrings(text) ==
  IF IsBlankText(text) THEN <<>> ELSE FilterNonBlank(text)

\* The length checks of validateEuringString alone.
validateLengthOnly(s) ==
  IF StringLength(s) = 0 THEN "EURING string cannot be empty"
  ELSE IF StringLength(s) < MinStringLength
    THEN "EURING string too short (minimum 20 characters)"
  ELSE IF StringLength(s) > MaxStringLength
    THEN "EURING string too long (maximum 150 characters)"
  ELSE ""

\* EuringAPI.validateEuringString: "" when valid, else the message.
validateEuringString(s) ==
  IF StringLength(s) = 0 THEN "EURING string cannot be empty"
  ELSE IF StringLength(s) < MinStringLength
    THEN "EURING string too short (minimum 20 characters)"
  ELSE IF StringLength(s) > MaxStringLength
    THEN "EURING string too long (maximum 150 characters)"
  ELSE IF HasPipes(s) /\ HasSpaces(s)
    THEN "EURING string cannot contain both pipes and spaces"
  ELSE ""

\* ------------------------------------------------- back end (single items)

VersionIds == {"euring_1966", "euring_2020"}

\* The layout a string is written in ("" when none).
LayoutOf(s) ==
  CASE s = "s1966" -> "euring_1966"
    [] s = "s2020" -> "euring_2020"
    [] OTHER -> ""

\* Every discriminant a string passes counted for half.
RawScore(version, s) ==
  (IF LayoutOf(s) = version THEN 500 ELSE 0)
  + (IF HasPipes(s) = (version = "euring_2020") THEN 500 ELSE 0)
  + (IF StringLength(s) \in (IF version = "euring_1966" THEN 40..60 ELSE 80..120)
     THEN 500 ELSE 0)

\* Back end: the score of a string against one version, in thousandths: the
\* weights of the discriminants it passes (field pattern, characteristic
\* separator, length window), which add up to one.
Score(version, s) ==
  (IF LayoutOf(s) = version THEN 334 ELSE 0)
  + (IF HasPipes(s) = (version = "euring_2020") THEN 333 ELSE 0)
  + (IF StringLength(s) \in (IF version = "euring_1966" THEN 40..60 ELSE 80..120)
     THEN 333 ELSE 0)

\* Back end: the confidence of a recognition, in thousandths: the best score.
Confidence(s) ==
  CHOOSE c \in {Score(v, s) : v \in VersionIds} :
    \A v \in VersionIds : Score(v, s) <= c

\* Back end, POST /api/euring/recognize: the RecognitionResponse for one string.
\* A string no layout matches yields a structured failure.
Recognize(s) ==
  IF LayoutOf(s) # ""
  THEN [success |-> TRUE, version |-> LayoutOf(s), confidence |-> Confidence(s),
        euring_string |-> s, error |-> ""]
  ELSE [success |-> FALSE, version |-> "", confidence |-> Confidence(s),
        euring_string |-> s, error |-> "format"]

\* EuringAPI.formatConfidence: Math.round(confidence * 100), the percentage
\* shown, of a confidence given in thousandths.
formatConfidence(confidence) == (confidence + 5) \div 10

\* recognition.version.match(/(\d{4})/): the first run of four digits, "" when
\* the version id has none.
VersionMatch(version) ==
  CASE version = "euring_1966" -> "1966"
    [] version = "euring_2020" -> "2020"
    [] OTHER -> ""

\* Back end, POST /api/euring/convert: the ConversionResponse for one request.
\* The converted string is written <<source string, target version>>.
ConvertItem(r) ==
  IF r.source_version = r.target_version
  THEN [success |-> FALSE, source_version |-> r.source_version,
        target_version |-> r.target_version, converted_string |-> <<>>,
        error |-> "same_version"]
  ELSE IF VersionMatch(LayoutOf(r.euring_string)) # r.source_version
  THEN [success |-> FALSE, source_version |-> r.source_version,
        target_version |-> r.target_version, converted_string |-> <<>>,
        error |-> "format"]
  ELSE [success |-> TRUE, source_version |-> r.source_version,
        target_version |-> r.target_version,
        converted_string |-> <<r.euring_string, r.target_version>>,
        error |-> ""]

\* ------------------------------------------------------------ panel state

VARIABLES
  form,      \* the form state the running handleSubmit closed over
  strings,   \* handleSubmit's local `strings` (single mode: the one trimmed string)
  loading,   \* useState loading
  error,     \* useState error
  results,   \* useState results
  pc,        \* where handleSubmit is suspended: "idle", "detect", "request"
  slots,     \* the Promise.all array of conversion requests being built
  inflight,  \* indices whose auto-detect recognize request is in flight
  request,   \* the final HTTP request: "none","sent","admitted","answered","failed"
  job,       \* back end: the batch being worked on
  submits    \* handleSubmit calls so far

panelVars == <<form, strings, loading, error, results, pc, slots, inflight,
               request, job, submits>>

\* ------------------------------------------------------ matrix editor state

\* The editor is followed through the properties position, length and
\* valid_values of a field.  At most one update request, one field addition
\* and one lookup GET are in flight at a time; a handler suspended at an await
\* keeps the matrixData, modalEditData and editValue of the render that
\* called it.  `held` records the tables the store has held, for reference.

VARIABLES
  matrixData,         \* useState matrixData: the FieldInfo (or null) of each cell
  matrixLoading,      \* useState loading of the matrix
  matrixError,        \* useState error of the matrix
  editMode,           \* useState editMode
  fieldDescriptions,  \* useState fieldDescriptions: the cached code meanings by cell
  showEditModal,      \* useState showEditModal
  modalEditData,      \* useState modalEditData
  editValue,          \* useState editValue: the text of the edit box
  saveStatus,         \* useState saveStatus
  statusTimers,       \* the pending setTimeout calls that will clear saveStatus:
                      \* their delays in ms, in the order they were started
  save,               \* the update request of the running saveEdit and what it closed over
  addition,           \* the request of the running addFieldToVersion and what it closed over
  lookupFetch,        \* the lookup GET of a running getFieldValueWithDescription
  loads,              \* loadMatrixData calls: scheduled by a timer, and in flight
  catalog,            \* back end: the stored field definitions and lookup tables
  held,               \* back end: every lookup table a cell has held
  saves               \* saveEdit calls so far

matrixVars == <<matrixData, matrixLoading, matrixError, editMode, fieldDescriptions,
                showEditModal, modalEditData, editValue, saveStatus, statusTimers,
                save, addition, lookupFetch, loads, catalog, held, saves>>

\* ------------------------------------------------------- domain panel state

\* The domain panel with its evolution timeline, and the domain facet filter
\* of the matrix.  A domain's data is followed by the domain it was asked
\* for; "" stands for null.
VARIABLES
  selectedDomain,       \* useState selectedDomain of the domain panel
  activeView,           \* useState activeView
  domainData,           \* useState domainEvolution, domainDocumentation,
                        \* domainFields, domainCompatibility, by name
  evolutionLoading,     \* useState evolutionLoading
  domainError,          \* useState error of the domain panel
  domainRequests,       \* the loadDomainData calls suspended at their await
  comparisonVersions,   \* useState comparisonVersions
  selectedVersions,     \* useState selectedVersions of the mounted timeline
  selectedDomains       \* useState selectedDomains of the facet filter

timelineVars == <<comparisonVersions, selectedVersions>>
viewVars == <<selectedDomain, activeView, domainData, evolutionLoading,
              domainError, domainRequests>>
domainVars == <<viewVars, timelineVars, selectedDomains>>


Forms ==
  {[panel |-> "recognize", batchMode |-> b, useAutoDetect |-> FALSE,
    sourceVersion |-> "1966", targetVersion |-> "2020"] : b \in BOOLEAN}
  \cup [panel : {"convert"}, batchMode : BOOLEAN, useAutoDetect : BOOLEAN,
        sourceVersion : Versions, targetVersion : Versions]

\* The cap of the panel's batch mode.
BatchCap(panel) ==
  IF panel = "recognize" THEN RecognitionBatchCap ELSE ConversionBatchCap

\* What a user submits: in batch mode any short text, some texts with blank
\* lines, or one line more than the panel's cap; in single mode one line.
ShortTexts ==
  SeqsUpTo(BatchLines, MaxLines)
  \cup {<<"blank">>, <<"blank", "s1966">>, <<"s2020", "blank", "garbage">>}

OversizedRecognition == Uniform(RecognitionBatchCap + 1, "s1966")
OversizedConversion == Uniform(ConversionBatchCap + 1, "s1966")

SingleTexts == {<<s>> : s \in SingleLines}

Texts(f) ==
  IF f.batchMode
  THEN ShortTexts \cup (IF f.panel = "recognize" THEN {OversizedRecognition}
                         ELSE {OversizedConversion})
  ELSE SingleTexts

Pending == [euring_string |-> "", source_version |-> "", target_version |-> ""]

\* last: the item that finished most recently (0: none yet).
NoJob == [reqs |-> <<>>, done |-> {}, out |-> <<>>, last |-> 0]

\* Back end: every item of the job has an outcome.
JobDrained == job.done = 1..Len(job.reqs)

PanelInit ==
  /\ form = [panel |-> "recognize", batchMode |-> FALSE, useAutoDetect |-> FALSE,
             sourceVersion |-> "1966", targetVersion |-> "2020"]
  /\ strings = <<>>
  /\ loading = FALSE
  /\ error = ""
  /\ results = <<>>
  /\ pc = "idle"
  /\ slots = <<>>
  /\ inflight = {}
  /\ request = "none"
  /\ job = NoJob
  /\ submits = 0

\* A new handleSubmit call: the submit button is disabled while loading; the
\* previous call's locals are gone.
Begin(f, text) ==
  /\ pc = "idle"
  /\ ~loading
  /\ JobDrained
  /\ submits < MaxSubmits
  /\ submits' = submits + 1
  /\ form' = f
  /\ job' = NoJob
  /\ UNCHANGED <<matrixVars, domainVars>>

\* if (!inputText.trim()) { setError(...); return; }
SubmitEmpty(f, text) ==
  /\ Begin(f, text)
  /\ IsBlankText(text)
  /\ error' = "Inserisci almeno una stringa EURING"
  /\ strings' = <<>>
  /\ slots' = <<>>
  /\ request' = "none"
  /\ inflight' = {}
  /\ UNCHANGED <<loading, results, pc>>

\* if (!useAutoDetect && sourceVersion === targetVersion) { setError(...); return; }
SubmitSameVersion(f, text) ==
  /\ Begin(f, text)
  /\ ~IsBlankText(text)
  /\ f.panel = "convert"
  /\ ~f.useAutoDetect
  /\ f.sourceVersion = f.targetVersion
  /\ error' = "La versione sorgente e quella target devono essere diverse"
  /\ strings' = <<>>
  /\ slots' = <<>>
  /\ request' = "none"
  /\ inflight' = {}
  /\ UNCHANGED <<loading, results, pc>>

\* The empty-input guard alone.
PastEmptyGuard(f, text) == ~IsBlankText(text)

\* The guards both early returns leave behind.
PastGuards(f, text) ==
  /\ ~IsBlankText(text)
  /\ ~(f.panel = "convert" /\ ~f.useAutoDetect /\ f.sourceVersion = f.targetVersion)

\* Both panels tested against the recognition panel's cap.
ExceedsRecognitionCap(f, strs) == Len(strs) > RecognitionBatchCap

\* The strings.length test of the batch branch.
ExceedsCap(f, strs) == Len(strs) > BatchCap(f.panel)

TooManyMessage(panel) ==
  IF panel = "recognize" THEN "Massimo 100 stringhe per batch"
  ELSE "Massimo 50 stringhe per batch conversion"

\* throw new Error('Massimo ...') -> catch: setError; finally: setLoading(false)
SubmitOversized(f, text) ==
  /\ Begin(f, text)
  /\ PastGuards(f, text)
  /\ f.batchMode
  /\ ExceedsCap(f, parseEuringStrings(text))
  /\ strings' = parseEuringStrings(text)
  /\ error' = TooManyMessage(f.panel)
  /\ results' = <<>>
  /\ loading' = FALSE
  /\ slots' = <<>>
  /\ request' = "none"
  /\ inflight' = {}
  /\ UNCHANGED pc

\* Single mode: validation.valid is false -> throw new Error(validation.message)
SubmitInvalid(f, text) ==
  /\ Begin(f, text)
  /\ PastGuards(f, text)
  /\ ~f.batchMode
  /\ validateEuringString(text[1]) # ""
  /\ strings' = text
  /\ error' = validateEuringString(text[1])
  /\ results' = <<>>
  /\ loading' = FALSE
  /\ slots' = <<>>
  /\ request' = "none"
  /\ inflight' = {}
  /\ UNCHANGED pc

\* The strings the handler goes on with once it is past every check.
Accepted(f, text) ==
  /\ PastGuards(f, text)
  /\ IF f.batchMode
     THEN ~ExceedsCap(f, parseEuringStrings(text))
     ELSE validateEuringString(text[1]) = ""

StringsOf(f, text) == IF f.batchMode THEN parseEuringStrings(text) ELSE text

\* Recognition panel: await EuringAPI.batchRecognize(...) / EuringAPI.recognize(...)
SubmitRecognize(f, text) ==
  /\ Begin(f, text)
  /\ f.panel = "recognize"
  /\ Accepted(f, text)
  /\ strings' = StringsOf(f, text)
  /\ loading' = TRUE
  /\ error' = ""
  /\ results' = <<>>
  /\ slots' = <<>>
  /\ request' = "sent"
  /\ inflight' = {}
  /\ pc' = "request"

\* The conversion request built for one string.
ConversionOf(f, s, source) ==
  [euring_string |-> s, source_version |-> source,
   target_version |-> f.targetVersion]

\* Conversion panel without auto-detect: every mapped promise resolves at once
\* and the batchConvert / convert request goes out.
SubmitConvert(f, text) ==
  /\ Begin(f, text)
  /\ f.panel = "convert"
  /\ ~f.useAutoDetect
  /\ Accepted(f, text)
  /\ strings' = StringsOf(f, text)
  /\ loading' = TRUE
  /\ error' = ""
  /\ results' = <<>>
  /\ slots' = [i \in 1..Len(StringsOf(f, text)) |->
                 ConversionOf(f, StringsOf(f, text)[i], f.sourceVersion)]
  /\ request' = "sent"
  /\ inflight' = {}
  /\ pc' = "request"

\* The indices whose recognize request strings.map(async ...) issues before
\* Promise.all is awaited.
DetectIssued(strs) == 1..Len(strs)

\* Conversion panel with auto-detect: one recognize request per string.
SubmitDetect(f, text) ==
  /\ Begin(f, text)
  /\ f.panel = "convert"
  /\ f.useAutoDetect
  /\ Accepted(f, text)
  /\ strings' = StringsOf(f, text)
  /\ loading' = TRUE
  /\ error' = ""
  /\ results' = <<>>
  /\ slots' = [i \in 1..Len(StringsOf(f, text)) |-> Pending]
  /\ inflight' = DetectIssued(StringsOf(f, text))
  /\ request' = "none"
  /\ pc' = "detect"

\* ------------------------------------------------ auto-detect (Promise.all)

\* What the async callback returns once recognition has answered.
DetectedSource(f, recognition) ==
  IF recognition.success /\ recognition.version # ""
     /\ VersionMatch(recognition.version) # ""
  THEN VersionMatch(recognition.version)
  ELSE f.sourceVersion

\* The values collected in the order the callbacks finish.
StoreInCompletionOrder(arr, i, value) ==
  [arr EXCEPT ![CHOOSE k \in 1..Len(arr) :
                  arr[k] = Pending /\ \A m \in 1..(k - 1) : arr[m] # Pending] = value]

\* Promise.all keeps each callback's value at the index of its string.
StoreSlot(arr, i, value) == [arr EXCEPT ![i] = value]

\* Once the last promise resolves the handler goes on to the final request.
AfterDetect ==
  IF inflight' = {}
  THEN request' = "sent" /\ pc' = "request"
  ELSE UNCHANGED <<request, pc>>

\* An unsuccessful recognition thrown out of the callback: Promise.all rejects,
\* the handler's catch shows the error and the other strings are dropped.
DetectRespondStrict(i) ==
  /\ pc = "detect"
  /\ i \in inflight
  /\ IF Recognize(strings[i]).success
     THEN /\ inflight' = inflight \ {i}
          /\ slots' = StoreSlot(slots, i,
               ConversionOf(form, strings[i],
                            DetectedSource(form, Recognize(strings[i]))))
          /\ AfterDetect
          /\ UNCHANGED <<loading, error>>
     ELSE /\ inflight' = {}
          /\ slots' = slots
          /\ error' = Recognize(strings[i]).error
          /\ loading' = FALSE
          /\ pc' = "idle"
          /\ UNCHANGED request
  /\ UNCHANGED <<submits, form, strings, results, job>>
  /\ UNCHANGED <<matrixVars, domainVars>>

\* The recognize request for string i is answered.
DetectRespond(i) ==
  /\ pc = "detect"
  /\ i \in inflight
  /\ inflight' = inflight \ {i}
  /\ slots' = StoreSlot(slots, i,
       ConversionOf(form, strings[i], DetectedSource(form, Recognize(strings[i]))))
  /\ AfterDetect
  /\ UNCHANGED <<submits, form, strings, loading, error, results, job>>
  /\ UNCHANGED <<matrixVars, domainVars>>

\* The callback without its try/catch: the rejection reaches Promise.all and
\* the handler's catch; the strings still being recognised are dropped.
DetectFailUncaught(i) ==
  /\ pc = "detect"
  /\ i \in inflight
  /\ inflight' = {}
  /\ error' = "Network Error"
  /\ loading' = FALSE
  /\ pc' = "idle"
  /\ UNCHANGED <<submits, form, strings, results, slots, request, job>>
  /\ UNCHANGED <<matrixVars, domainVars>>

\* The recognize request for string i fails in transport (network error or the
\* 30 s axios timeout): EuringAPI.recognize throws, the callback's catch logs a
\* warning and the selected source version is kept.
DetectFail(i) ==
  /\ pc = "detect"
  /\ i \in inflight
  /\ inflight' = inflight \ {i}
  /\ slots' = StoreSlot(slots, i, ConversionOf(form, strings[i], form.sourceVersion))
  /\ AfterDetect
  /\ UNCHANGED <<submits, form, strings, loading, error, results, job>>
  /\ UNCHANGED <<matrixVars, domainVars>>

\* ----------------------------------------------------- back end (batches)

\* The items the request carries.
RequestItems == IF form.panel = "recognize" THEN strings ELSE slots

\* Back end: the batch request arrives and is accepted.
Admit ==
  /\ request = "sent"
  /\ form.batchMode
  /\ request' = "admitted"
  /\ job' = [reqs |-> RequestItems, done |-> {},
             out |-> [i \in 1..Len(RequestItems) |-> Pending], last |-> 0]
  /\ UNCHANGED <<submits, form, strings, loading, error, results, pc, slots, inflight>>
  /\ UNCHANGED <<matrixVars, domainVars>>

\* Back end: the items that have been given a worker: the first max_concurrent,
\* and one more for each item that has finished.
Started(j) ==
  {i \in 1..Len(j.reqs) : i <= MaxConcurrent + Cardinality(j.done)}

Running(j) == Started(j) \ j.done

\* A recognition that is surer of a string the more items it has served.
ItemOutcomeLearning(r) ==
  IF form.panel = "recognize"
  THEN [Recognize(r) EXCEPT
          !.confidence = IF job.done = {} THEN @ \div 2 ELSE @]
  ELSE ConvertItem(r)

\* Back end: the outcome of one item of the batch.
ItemOutcome(r) ==
  IF form.panel = "recognize" THEN Recognize(r) ELSE ConvertItem(r)

\* Back end: a worker finishes item i; its outcome is filed under i.
BackendFinish(i) ==
  /\ i \in Running(job)
  /\ job' = [job EXCEPT !.done = @ \cup {i}, !.out[i] = ItemOutcome(job.reqs[i]),
                        !.last = i]
  /\ UNCHANGED <<submits, form, strings, loading, error, results, pc, slots, inflight,
                 request>>
  /\ UNCHANGED <<matrixVars, domainVars>>

\* ------------------------------------------------------------- responses

\* strings[index] || fallback
OriginalString(strs, index, fallback) ==
  IF index <= Len(strs) /\ strs[index] # "" THEN strs[index] ELSE fallback

\* response.results.map((result, index) => ({...result, original_string: ...}))
RecognitionResults(out, strs) ==
  [index \in 1..Len(out) |->
     [original_string |-> OriginalString(strs, index, out[index].euring_string),
      euring_string |-> out[index].euring_string,
      success |-> out[index].success,
      version |-> out[index].version,
      confidence |-> out[index].confidence,
      error |-> out[index].error]]

ConversionResults(out, strs) ==
  [index \in 1..Len(out) |->
     [original_string |-> OriginalString(strs, index, out[index].source_version),
      success |-> out[index].success,
      source_version |-> out[index].source_version,
      target_version |-> out[index].target_version,
      converted_string |-> out[index].converted_string,
      error |-> out[index].error]]

ResultsOf(out, strs) ==
  IF form.panel = "recognize" THEN RecognitionResults(out, strs)
  ELSE ConversionResults(out, strs)

\* The handler without its finally block.
NoFinally == loading' = loading /\ pc' = "idle"

\* finally { setLoading(false); }
Finally == loading' = FALSE /\ pc' = "idle"

\* The batch response arrives: response.success is true, the results are shown.
BatchRespond ==
  /\ pc = "request"
  /\ request = "admitted"
  /\ JobDrained
  /\ request' = "answered"
  /\ results' = ResultsOf(job.out, strings)
  /\ Finally
  /\ UNCHANGED <<submits, form, strings, error, slots, inflight, job>>
  /\ UNCHANGED <<matrixVars, domainVars>>

\* The single recognize / convert response arrives and is shown.
SingleRespond ==
  /\ pc = "request"
  /\ request = "sent"
  /\ ~form.batchMode
  /\ request' = "answered"
  /\ results' = ResultsOf(<<ItemOutcome(RequestItems[1])>>, strings)
  /\ Finally
  /\ UNCHANGED <<submits, form, strings, error, slots, inflight, job>>
  /\ UNCHANGED <<matrixVars, domainVars>>

\* The handler's catch without its setError.
TransportFailUnreported ==
  /\ pc = "request"
  /\ request \in {"sent", "admitted"}
  /\ request' = "failed"
  /\ error' = error
  /\ Finally
  /\ UNCHANGED <<submits, form, strings, results, slots, inflight, job>>
  /\ UNCHANGED <<matrixVars, domainVars>>

\* The final request fails in transport (network error, or no answer within
\* the 30 s axios timeout): EuringAPI throws, catch sets the error.
TransportFail ==
  /\ pc = "request"
  /\ request \in {"sent", "admitted"}
  /\ request' = "failed"
  /\ error' = "Network Error"
  /\ Finally
  /\ UNCHANGED <<submits, form, strings, results, slots, inflight, job>>
  /\ UNCHANGED <<matrixVars, domainVars>>

\* ==================================================== EURING matrix editor

\* ---------------------------------------------------------- matrix inputs

\* Rows and columns of the matrix the editor shows.
Fields == {"ring_number", "species_code"}
MatrixVersions == {"2000", "2020"}
Cells == Fields \X MatrixVersions

\* A line of the edit box, split where the code splits it: the part before
\* its first colon, whether it has a colon, the part after it.
Ln(code, meaning) == [head |-> code, colon |-> TRUE, tail |-> meaning]
Bare(code) == [head |-> code, colon |-> FALSE, tail |-> ""]

\* Lines a user types into the valid-values box.
TypedLines ==
  {Ln("A0", "x"), Ln("A0", "y"), Ln("B0", "x"), Bare("B0"), Ln("", "x")}
TypedCommaLines == {Bare("A0, B0"), Bare("A0, A0")}

\* Texts a user types into the valid-values box.  A text of several lines
\* without any colon is left to the one the editor itself produces.
ValueTexts ==
  {t \in SeqsUpTo(TypedLines, MaxEntries) :
     Len(t) = 1 \/ \E i \in 1..Len(t) : t[i].colon}
  \cup {<<l>> : l \in TypedCommaLines} \cup {<<>>}

\* Texts a user types into the position box.
PositionTexts ==
  {<<Bare(s)>> : s \in {"0", "1", "2", "-1", "abc", "1.5"}}
  \cup {<<>>}

\* parseInt of the edit box; NaN is -1000.
NaN == -1000
parseInt(text) ==
  IF Len(text) # 1 \/ text[1].colon THEN NaN
  ELSE CASE text[1].head = "0" -> 0
         [] text[1].head = "1" -> 1
         [] text[1].head = "1.5" -> 1
         [] text[1].head = "2" -> 2
         [] text[1].head = "2abc" -> 2
         [] text[1].head = "3" -> 3
         [] text[1].head = "4" -> 4
         [] text[1].head = "10" -> 10
         [] text[1].head = "-1" -> -1
         [] OTHER -> NaN
isNaN(n) == n = NaN

\* `Value: ${code}`
DefaultMeaning(code) ==
  CASE code = "A0" -> "Value: A0"
    [] code = "B0" -> "Value: B0"
    [] code = "A0\nB0" -> "Value: A0\nB0"
    [] OTHER -> "Value: ?"

\* text.split(',').map(trim).filter(nonempty) of a text without colons.
SplitCommas(text) ==
  IF Len(text) = 0 THEN <<>>
  ELSE IF Len(text) = 1
  THEN CASE text[1].head = "A0, B0" -> <<"A0", "B0">>
         [] text[1].head = "A0, A0" -> <<"A0", "A0">>
         [] text[1].head = "" -> <<>>
         [] OTHER -> <<text[1].head>>
  ELSE IF text = <<Bare("A0"), Bare("B0")>> THEN <<"A0\nB0">>
  ELSE <<"?">>

\* codes.join(', ') as a text of the edit box.
JoinCommas(codes) ==
  CASE codes = <<"A0", "B0">> -> <<Bare("A0, B0")>>
    [] codes = <<"A0", "A0">> -> <<Bare("A0, A0")>>
    [] codes = <<"A0\nB0">> -> <<Bare("A0"), Bare("B0")>>
    [] Len(codes) = 1 /\ codes # <<"A0\nB0">> -> <<Bare(codes[1])>>
    [] OTHER -> <<Bare("?")>>

hasColonFormat(text) == \E i \in 1..Len(text) : text[i].colon

\* The values one line contributes in the CODE:DESCRIPTION format.
ParseLine(line) ==
  IF line.colon
  THEN IF line.head # "" /\ line.tail # ""
       THEN <<[code |-> line.head, meaning |-> line.tail]>>
       ELSE <<>>
  ELSE <<[code |-> line.head, meaning |-> DefaultMeaning(line.head)]>>

RECURSIVE ParseLines(_)
ParseLines(text) ==
  IF text = <<>> THEN <<>>
  ELSE ParseLine(Head(text)) \o ParseLines(Tail(text))

\* handleValidValuesUpdate: the values parsed from the edit box.
ParseValues(text) ==
  IF hasColonFormat(text) THEN ParseLines(text)
  ELSE [i \in 1..Len(SplitCommas(text)) |->
          [code |-> SplitCommas(text)[i],
           meaning |-> DefaultMeaning(SplitCommas(text)[i])]]

\* values.map(v => v.code)
CodesOf(values) == [i \in 1..Len(values) |-> values[i].code]

\* descriptions[v.code] = v.meaning for each value in order: the last wins.
Descriptions(values) ==
  {<<values[i].code, values[i].meaning>> : i \in
     {i \in 1..Len(values) :
        \A j \in (i + 1)..Len(values) : values[j].code # values[i].code}}

\* descriptions[code], "" when undefined.
Describe(descriptions, code) ==
  IF \E p \in descriptions : p[1] = code
  THEN (CHOOSE p \in descriptions : p[1] = code)[2]
  ELSE ""

\* values.map(v => `${v.code}:${v.meaning}`).join('\n')
FormatValues(values) == [i \in 1..Len(values) |-> Ln(values[i].code, values[i].meaning)]

\* The lines `${code}:${description}` (or `code`) puts into a text.
EntryLines(code, description) ==
  IF code = "A0\nB0"
  THEN IF description = "" THEN <<Bare("A0"), Bare("B0")>>
       ELSE <<Bare("A0"), Ln("B0", "Value: A0"), Bare("B0")>>
  ELSE IF description = "" THEN <<Bare(code)>>
  ELSE <<Ln(code, description)>>

\* Only the codes that have a description.
DescribedOnly(codes, descriptions) ==
  LET described == SelectSeq(codes, LAMBDA code : Describe(descriptions, code) # "")
  IN [i \in 1..Len(described) |-> <<described[i], Describe(descriptions, described[i])>>]

\* codes.map(code => description ? `${code}:${description}` : code), each
\* entry kept as the pair of the code and the meaning shown with it
DisplayedValues(codes, descriptions) ==
  [i \in 1..Len(codes) |-> <<codes[i], Describe(descriptions, codes[i])>>]

RECURSIVE WithDescriptions(_, _)
\* getFieldValueWithDescription(...).join('\n') without truncation
WithDescriptions(codes, descriptions) ==
  IF codes = <<>> THEN <<>>
  ELSE EntryLines(Head(codes), Describe(descriptions, Head(codes)))
       \o WithDescriptions(Tail(codes), descriptions)

\* versions[version] === null
NullField == [present |-> FALSE, position |-> 0, length |-> 0, valid_values |-> <<>>]

\* modalEditData === null
NoModal == [fieldName |-> "", version |-> "", property |-> "", currentValue |-> <<>>]

\* fieldDescriptions[cacheKey] === undefined
NoDescriptions == [cached |-> FALSE, descriptions |-> {}]

NoStatus == [type |-> "none", message |-> ""]

\* No matrix yet: every cell renders as absent.
NoMatrix == [c \in Cells |-> NullField]

NoSave ==
  [state |-> "none", fieldName |-> "", version |-> "", property |-> "",
   editValue |-> <<>>, values |-> <<>>, matrixData |-> NoMatrix]

NoAddition == [state |-> "none", cell |-> <<"", "">>, position |-> 0,
               matrixData |-> NoMatrix]

NoFetch == [state |-> "none", cell |-> <<"", "">>, codes |-> <<>>, forEdit |-> FALSE,
            values |-> <<>>]

\* Back end: the catalog the store holds when the editor is opened.
InitialCatalog ==
  [c \in Cells |->
     CASE c = <<"ring_number", "2000">> ->
            [present |-> TRUE, position |-> 1, length |-> 1,
             table |-> <<[code |-> "A0", meaning |-> "x"]>>]
       [] c = <<"ring_number", "2020">> ->
            [present |-> TRUE, position |-> 0, length |-> 1,
             table |-> <<[code |-> "A0", meaning |-> "x"],
                         [code |-> "B0", meaning |-> "y"]>>]
       [] c = <<"species_code", "2020">> ->
            [present |-> TRUE, position |-> 1, length |-> 2, table |-> <<>>]
       [] OTHER ->
            [present |-> FALSE, position |-> 0, length |-> 0, table |-> <<>>]]

\* Back end: the matrix GET /versions/matrix answers from a catalog.
MatrixOf(cat) ==
  [c \in Cells |->
     IF cat[c].present
     THEN [present |-> TRUE, position |-> cat[c].position, length |-> cat[c].length,
           valid_values |-> CodesOf(cat[c].table)]
     ELSE NullField]

MatrixInit ==
  /\ matrixData = NoMatrix
  /\ matrixLoading = TRUE
  /\ matrixError = ""
  /\ editMode = FALSE
  /\ fieldDescriptions = [c \in Cells |-> NoDescriptions]
  /\ showEditModal = FALSE
  /\ modalEditData = NoModal
  /\ editValue = <<>>
  /\ saveStatus = NoStatus
  /\ statusTimers = <<>>
  /\ save = NoSave
  /\ addition = NoAddition
  /\ lookupFetch = NoFetch
  /\ loads = [scheduled |-> 0, flying |-> 1]
  /\ catalog = InitialCatalog
  /\ held = [c \in Cells |-> {InitialCatalog[c].table}]
  /\ saves = 0

modalVars == <<showEditModal, modalEditData, editValue>>
statusVars == <<saveStatus, statusTimers>>
loadVars == <<matrixLoading, matrixError, loads>>
storeVars == <<catalog, held>>

\* The matrix is on screen: none of the early returns of the render applies.
MatrixShown == ~matrixLoading /\ matrixError = ""

\* setSaveStatus(...) followed by setTimeout(() => setSaveStatus(null), delay)
ShowStatusFor(type, message, delay) ==
  /\ saveStatus' = [type |-> type, message |-> message]
  /\ statusTimers' = Append(statusTimers, delay)

\* The delays of saveEdit and of its two handlers: 4 s after a success, 5 s
\* after an error.
ShowStatus(type, message) ==
  ShowStatusFor(type, message, IF type = "error" THEN 5000 ELSE 4000)

\* The sequence without its i-th element.
RemoveAt(seq, i) == SubSeq(seq, 1, i - 1) \o SubSeq(seq, i + 1, Len(seq))

\* Timer i fires and clears the status, whatever message it was started
\* for.  A timer started later fires before one started earlier only when
\* its delay is the shorter one.
TimerFires(i) ==
  /\ i \in 1..Len(statusTimers)
  /\ \A j \in 1..(i - 1) : statusTimers[j] > statusTimers[i]
  /\ statusTimers' = RemoveAt(statusTimers, i)
  /\ saveStatus' = NoStatus
  /\ UNCHANGED <<panelVars, domainVars>>
  /\ UNCHANGED <<matrixData, editMode, fieldDescriptions, modalVars, loadVars,
                 save, addition, lookupFetch, storeVars, saves>>

\* A status timer fires.
StatusTimerFires == \E i \in 1..Len(statusTimers) : TimerFires(i)

\* The edit-mode button.
ToggleEditMode ==
  /\ MatrixShown
  /\ editMode' = ~editMode
  /\ UNCHANGED <<panelVars, domainVars>>
  /\ UNCHANGED <<matrixData, fieldDescriptions, modalVars, statusVars, loadVars,
                 save, addition, lookupFetch, storeVars, saves>>

\* ------------------------------------------------------- loadMatrixData

\* A reload timer fires, or Riprova is pressed on the error page:
\* loadMatrixData starts.
LoadStarts ==
  /\ \/ /\ loads.scheduled > 0
        /\ loads' = [scheduled |-> loads.scheduled - 1, flying |-> loads.flying + 1]
     \/ /\ loads.scheduled = 0 /\ loads.flying = 0
        /\ ~matrixLoading /\ matrixError # ""
        /\ loads' = [loads EXCEPT !.flying = 1]
  /\ matrixLoading' = TRUE
  /\ matrixError' = ""
  /\ UNCHANGED <<panelVars, domainVars>>
  /\ UNCHANGED <<matrixData, editMode, fieldDescriptions, modalVars, statusVars,
                 save, addition, lookupFetch, storeVars, saves>>

\* The matrix arrives: setMatrixData(response), finally setLoading(false).
LoadDelivered ==
  /\ loads.flying > 0
  /\ loads' = [loads EXCEPT !.flying = loads.flying - 1]
  /\ matrixData' = MatrixOf(catalog)
  /\ matrixLoading' = FALSE
  /\ UNCHANGED <<panelVars, domainVars>>
  /\ UNCHANGED <<matrixError, editMode, fieldDescriptions, modalVars, statusVars,
                 save, addition, lookupFetch, storeVars, saves>>

\* The matrix request fails: catch sets the error, finally setLoading(false).
LoadFails ==
  /\ loads.flying > 0
  /\ loads' = [loads EXCEPT !.flying = loads.flying - 1]
  /\ matrixError' = "Errore di connessione"
  /\ matrixLoading' = FALSE
  /\ UNCHANGED <<panelVars, domainVars>>
  /\ UNCHANGED <<matrixData, editMode, fieldDescriptions, modalVars, statusVars,
                 save, addition, lookupFetch, storeVars, saves>>

\* ------------------------------------------------------------ the modal

\* startEditing(fieldName, version, property, currentValue)
startEditing(cell, property, currentValue) ==
  /\ modalEditData' = [fieldName |-> cell[1], version |-> cell[2], property |-> property,
                        currentValue |-> currentValue]
  /\ editValue' = currentValue
  /\ showEditModal' = TRUE

\* position.toString() / length.toString() as a text of the edit box
NumberText(n) ==
  <<Bare(CASE n = 0 -> "0" [] n = 1 -> "1" [] n = 2 -> "2" [] n = 3 -> "3"
           [] n = 4 -> "4" [] n = -1 -> "-1" [] n = 10 -> "10" [] OTHER -> "n")>>

\* A click on the position or the length of a field in edit mode.
OpenNumberEditor(cell, property) ==
  /\ MatrixShown /\ editMode
  /\ matrixData[cell].present
  /\ startEditing(cell, property,
                  NumberText(IF property = "position" THEN matrixData[cell].position
                             ELSE matrixData[cell].length))
  /\ UNCHANGED <<panelVars, domainVars>>
  /\ UNCHANGED <<matrixData, editMode, fieldDescriptions, statusVars, loadVars,
                 save, addition, lookupFetch, storeVars, saves>>

\* "+ Valori" on a field without valid values.
AddValuesEditor(cell) ==
  /\ MatrixShown /\ editMode
  /\ matrixData[cell].present
  /\ matrixData[cell].valid_values = <<>>
  /\ startEditing(cell, "valid_values", <<>>)
  /\ UNCHANGED <<panelVars, domainVars>>
  /\ UNCHANGED <<matrixData, editMode, fieldDescriptions, statusVars, loadVars,
                 save, addition, lookupFetch, storeVars, saves>>

\* A click on the values of a field in edit mode (onEdit): with the meanings
\* in cache the modal opens at once, otherwise after a lookup GET.
OpenValuesEditor(cell) ==
  /\ MatrixShown /\ editMode
  /\ matrixData[cell].present
  /\ matrixData[cell].valid_values # <<>>
  /\ IF fieldDescriptions[cell].cached
     THEN /\ startEditing(cell, "valid_values",
                          WithDescriptions(matrixData[cell].valid_values,
                                           fieldDescriptions[cell].descriptions))
          /\ UNCHANGED lookupFetch
     ELSE /\ lookupFetch.state = "none"
          /\ lookupFetch' = [state |-> "sent", cell |-> cell,
                             codes |-> matrixData[cell].valid_values,
                             forEdit |-> TRUE, values |-> <<>>]
          /\ UNCHANGED modalVars
  /\ UNCHANGED <<panelVars, domainVars>>
  /\ UNCHANGED <<matrixData, editMode, fieldDescriptions, statusVars, loadVars,
                 save, addition, storeVars, saves>>

\* onChange of the edit box, before the request of a save.
TypeValue(text) ==
  /\ MatrixShown /\ showEditModal
  /\ save.state \notin {"sent", "applied", "refused"}
  /\ saves < MaxSaves
  /\ text # editValue
  /\ editValue' = text
  /\ UNCHANGED <<panelVars, domainVars>>
  /\ UNCHANGED <<matrixData, editMode, fieldDescriptions, showEditModal, modalEditData,
                 statusVars, loadVars, save, addition, lookupFetch, storeVars, saves>>

\* setShowEditModal(false); setModalEditData(null); setEditValue('')
CloseModal ==
  /\ showEditModal' = FALSE
  /\ modalEditData' = NoModal
  /\ editValue' = <<>>

cancelEdit ==
  /\ MatrixShown /\ showEditModal
  /\ CloseModal
  /\ UNCHANGED <<panelVars, domainVars>>
  /\ UNCHANGED <<matrixData, editMode, fieldDescriptions, statusVars, loadVars,
                 save, addition, lookupFetch, storeVars, saves>>

\* ----------------------------------------- getFieldValueWithDescription

\* The effect of FieldValuesDisplay asking the back end on every render.
RenderValuesUncached(cell) ==
  /\ MatrixShown
  /\ matrixData[cell].present
  /\ matrixData[cell].valid_values # <<>>
  /\ lookupFetch.state = "none"
  /\ lookupFetch' = [state |-> "sent", cell |-> cell,
                     codes |-> matrixData[cell].valid_values,
                     forEdit |-> FALSE, values |-> <<>>]
  /\ UNCHANGED <<panelVars, domainVars>>
  /\ UNCHANGED <<matrixData, editMode, fieldDescriptions, modalVars, statusVars,
                 loadVars, save, addition, storeVars, saves>>

\* The effect of FieldValuesDisplay on a render: without the meanings in
\* cache it asks the back end for the lookup table of the cell.
RenderValues(cell) ==
  /\ MatrixShown
  /\ matrixData[cell].present
  /\ matrixData[cell].valid_values # <<>>
  /\ ~fieldDescriptions[cell].cached
  /\ lookupFetch.state = "none"
  /\ lookupFetch' = [state |-> "sent", cell |-> cell,
                     codes |-> matrixData[cell].valid_values,
                     forEdit |-> FALSE, values |-> <<>>]
  /\ UNCHANGED <<panelVars, domainVars>>
  /\ UNCHANGED <<matrixData, editMode, fieldDescriptions, modalVars, statusVars,
                 loadVars, save, addition, storeVars, saves>>

\* Back end: the predefined lookup table of a field, <<>> when it has none.
BuiltInDefault(fieldName) ==
  IF fieldName = "ring_number" THEN <<[code |-> "A0", meaning |-> "d"]>> ELSE <<>>

\* Back end, getTable(field, version): the stored table when it carries custom
\* meanings, else the field's predefined table, else the stored valid values
\* as they are.  A stored entry without a custom meaning has meaning "".
getTable(cat, cell) ==
  IF \E i \in 1..Len(cat[cell].table) : cat[cell].table[i].meaning # ""
  THEN cat[cell].table
  ELSE IF BuiltInDefault(cell[1]) # <<>> THEN BuiltInDefault(cell[1])
  ELSE cat[cell].table

\* Back end: the lookup GET is answered from the table the store holds now.
FetchServed ==
  /\ lookupFetch.state = "sent"
  /\ catalog[lookupFetch.cell].present
  /\ lookupFetch' = [lookupFetch EXCEPT !.state = "served",
                                        !.values = getTable(catalog, lookupFetch.cell)]
  /\ UNCHANGED <<panelVars, domainVars>>
  /\ UNCHANGED <<matrixData, editMode, fieldDescriptions, modalVars, statusVars,
                 loadVars, save, addition, storeVars, saves>>

\* The answer arrives: the meanings go into the cache; onEdit goes on to
\* startEditing with the codes it was called with.
FetchDelivered ==
  /\ lookupFetch.state = "served"
  /\ fieldDescriptions' =
       [fieldDescriptions EXCEPT ![lookupFetch.cell] =
          [cached |-> TRUE, descriptions |-> Descriptions(lookupFetch.values)]]
  /\ IF lookupFetch.forEdit
     THEN startEditing(lookupFetch.cell, "valid_values",
                       WithDescriptions(lookupFetch.codes,
                                        Descriptions(lookupFetch.values)))
     ELSE UNCHANGED modalVars
  /\ lookupFetch' = NoFetch
  /\ UNCHANGED <<panelVars, domainVars>>
  /\ UNCHANGED <<matrixData, editMode, statusVars, loadVars, save, addition,
                 storeVars, saves>>

\* The GET fails or finds no table: the codes are used without meanings.
FetchFails ==
  /\ lookupFetch.state \in {"sent", "served"}
  /\ IF lookupFetch.forEdit
     THEN startEditing(lookupFetch.cell, "valid_values",
                       WithDescriptions(lookupFetch.codes, {}))
     ELSE UNCHANGED modalVars
  /\ lookupFetch' = NoFetch
  /\ UNCHANGED <<panelVars, domainVars>>
  /\ UNCHANGED <<matrixData, editMode, fieldDescriptions, statusVars, loadVars,
                 save, addition, storeVars, saves>>

\* -------------------------------------------------------------- saveEdit

\* saveEdit is called from the open modal; one update request at a time.
SaveClicked ==
  /\ MatrixShown /\ showEditModal
  /\ modalEditData # NoModal
  /\ save.state \notin {"sent", "applied", "refused"}
  /\ addition.state \notin {"sent", "applied", "refused"}
  /\ saves < MaxSaves
  /\ saves' = saves + 1

\* The front-end validation of a position or a length refuses the text.
InvalidNumber ==
  \/ /\ modalEditData.property = "position"
     /\ isNaN(parseInt(editValue)) \/ parseInt(editValue) < 0
  \/ /\ modalEditData.property = "length"
     /\ isNaN(parseInt(editValue)) \/ parseInt(editValue) < 1

InvalidNumberMessage ==
  IF modalEditData.property = "position"
  THEN "La posizione deve essere un numero intero maggiore o uguale a 0"
  ELSE "La lunghezza deve essere un numero intero maggiore di 0"

SaveInvalidNumber ==
  /\ SaveClicked
  /\ InvalidNumber
  /\ ShowStatus("error", InvalidNumberMessage)
  /\ UNCHANGED <<panelVars, domainVars>>
  /\ UNCHANGED <<matrixData, editMode, fieldDescriptions, modalVars, loadVars,
                 save, addition, lookupFetch, storeVars>>

\* handleValidValuesUpdate: nothing parsed from the edit box.
SaveNoValues ==
  /\ SaveClicked
  /\ modalEditData.property = "valid_values"
  /\ ParseValues(editValue) = <<>>
  /\ ShowStatus("error", "Inserisci almeno un valore")
  /\ UNCHANGED <<panelVars, domainVars>>
  /\ UNCHANGED <<matrixData, editMode, fieldDescriptions, modalVars, loadVars,
                 save, addition, lookupFetch, storeVars>>

\* What the running saveEdit closed over when it issued its request.
SaveRequest(values) ==
  [state |-> "sent", fieldName |-> modalEditData.fieldName,
   version |-> modalEditData.version, property |-> modalEditData.property,
   editValue |-> editValue, values |-> values, matrixData |-> matrixData]

\* handleValidValuesUpdate: the parsed values are sent to the lookup update.
SaveValues ==
  /\ SaveClicked
  /\ modalEditData.property = "valid_values"
  /\ ParseValues(editValue) # <<>>
  /\ save' = SaveRequest(ParseValues(editValue))
  /\ UNCHANGED <<panelVars, domainVars>>
  /\ UNCHANGED <<matrixData, editMode, fieldDescriptions, modalVars, statusVars,
                 loadVars, addition, lookupFetch, storeVars>>

\* handleRegularFieldUpdate: the text of the edit box is sent as the value.
SaveField ==
  /\ SaveClicked
  /\ modalEditData.property \in {"position", "length"}
  /\ ~InvalidNumber
  /\ save' = SaveRequest(<<>>)
  /\ UNCHANGED <<panelVars, domainVars>>
  /\ UNCHANGED <<matrixData, editMode, fieldDescriptions, modalVars, statusVars,
                 loadVars, addition, lookupFetch, storeVars>>

SaveCell == <<save.fieldName, save.version>>

\* Back end: the store takes a number only from a text that is one.
IsIntegerText(text) ==
  /\ Len(text) = 1 /\ ~text[1].colon
  /\ text[1].head \in {"0", "1", "2", "3", "4", "10", "-1"}

\* Back end: the store applies the update of the request.
StoreApplies ==
  /\ save.state = "sent"
  /\ catalog[SaveCell].present
  /\ save.property = "valid_values" \/ IsIntegerText(save.editValue)
  /\ catalog' =
       [catalog EXCEPT ![SaveCell] =
          CASE save.property = "valid_values" -> [@ EXCEPT !.table = save.values]
            [] save.property = "position" ->
                 [@ EXCEPT !.position = parseInt(save.editValue)]
            [] OTHER -> [@ EXCEPT !.length = parseInt(save.editValue)]]
  /\ held' = [held EXCEPT ![SaveCell] = @ \cup {catalog'[SaveCell].table}]
  /\ save' = [save EXCEPT !.state = "applied"]
  /\ UNCHANGED <<panelVars, domainVars>>
  /\ UNCHANGED <<matrixData, editMode, fieldDescriptions, modalVars, statusVars,
                 loadVars, addition, lookupFetch, saves>>

\* Back end: the store answers success: false and changes nothing.
StoreRefuses ==
  /\ save.state = "sent"
  /\ save' = [save EXCEPT !.state = "refused"]
  /\ UNCHANGED <<panelVars, domainVars>>
  /\ UNCHANGED <<matrixData, editMode, fieldDescriptions, modalVars, statusVars,
                 loadVars, addition, lookupFetch, storeVars, saves>>

\* The old codes followed by the codes of the values that are new.
MergedCodes(old, values) ==
  old \o SelectSeq(CodesOf(values), LAMBDA c : \A i \in 1..Len(old) : old[i] # c)

\* versionInfo.valid_values = values.map(v => v.code)
UpdatedCodes(old, values) == CodesOf(values)

\* handleValidValuesUpdate writing the cache as a new object that holds the
\* saved entry alone.
LookupSavedAlone ==
  /\ save.state = "applied"
  /\ save.property = "valid_values"
  /\ ShowStatus("success", "Valori salvati")
  /\ matrixData' =
       IF save.matrixData[SaveCell].present
       THEN [save.matrixData EXCEPT ![SaveCell].valid_values =
               UpdatedCodes(@, save.values)]
       ELSE matrixData
  /\ editValue' = IF hasColonFormat(save.editValue) THEN FormatValues(save.values)
                  ELSE JoinCommas(CodesOf(save.values))
  /\ fieldDescriptions' =
       [c \in Cells |->
          IF c = SaveCell
          THEN [cached |-> TRUE, descriptions |-> Descriptions(save.values)]
          ELSE NoDescriptions]
  /\ save' = [save EXCEPT !.state = "saved", !.matrixData = NoMatrix]
  /\ UNCHANGED <<panelVars, domainVars>>
  /\ UNCHANGED <<editMode, showEditModal, modalEditData, loadVars, addition,
                 lookupFetch, storeVars, saves>>

\* handleValidValuesUpdate after a successful answer: valid_values of the
\* matrix the handler closed over, the edit box and the cache are rewritten.
LookupSaved ==
  /\ save.state = "applied"
  /\ save.property = "valid_values"
  /\ ShowStatus("success", "Valori salvati")
  /\ matrixData' =
       IF save.matrixData[SaveCell].present
       THEN [save.matrixData EXCEPT ![SaveCell].valid_values =
               UpdatedCodes(@, save.values)]
       ELSE matrixData
  /\ editValue' = IF hasColonFormat(save.editValue) THEN FormatValues(save.values)
                  ELSE JoinCommas(CodesOf(save.values))
  /\ fieldDescriptions' =
       [fieldDescriptions EXCEPT ![SaveCell] =
          [cached |-> TRUE, descriptions |-> Descriptions(save.values)]]
  /\ save' = [save EXCEPT !.state = "saved", !.matrixData = NoMatrix]
  /\ UNCHANGED <<panelVars, domainVars>>
  /\ UNCHANGED <<editMode, showEditModal, modalEditData, loadVars, addition,
                 lookupFetch, storeVars, saves>>

\* handleRegularFieldUpdate after a successful answer: the property of the
\* matrix the handler closed over is rewritten, the modal is closed and two
\* reloads are scheduled.
FieldSaved ==
  /\ save.state = "applied"
  /\ save.property \in {"position", "length"}
  /\ ShowStatus("success", "Salvato")
  /\ matrixData' =
       IF ~save.matrixData[SaveCell].present THEN save.matrixData
       ELSE IF save.property = "position"
       THEN [save.matrixData EXCEPT ![SaveCell].position = parseInt(save.editValue)]
       ELSE [save.matrixData EXCEPT ![SaveCell].length = parseInt(save.editValue)]
  /\ loads' = [loads EXCEPT !.scheduled = @ + 2]
  /\ CloseModal
  /\ save' = [save EXCEPT !.state = "saved", !.matrixData = NoMatrix]
  /\ UNCHANGED <<panelVars, domainVars>>
  /\ UNCHANGED <<matrixLoading, matrixError, editMode, fieldDescriptions, addition,
                 lookupFetch, storeVars, saves>>

\* success: false closing the modal whatever it edits.
SaveRefusedCloses ==
  /\ save.state = "refused"
  /\ ShowStatus("error", "Errore")
  /\ CloseModal
  /\ save' = [save EXCEPT !.state = "failed", !.matrixData = NoMatrix]
  /\ UNCHANGED <<panelVars, domainVars>>
  /\ UNCHANGED <<matrixData, editMode, fieldDescriptions, loadVars, addition,
                 lookupFetch, storeVars, saves>>

\* success: false: an error status; the modal closes unless it edits values.
SaveRefused ==
  /\ save.state = "refused"
  /\ ShowStatus("error", "Errore")
  /\ IF save.property = "valid_values" THEN UNCHANGED modalVars ELSE CloseModal
  /\ save' = [save EXCEPT !.state = "failed", !.matrixData = NoMatrix]
  /\ UNCHANGED <<panelVars, domainVars>>
  /\ UNCHANGED <<matrixData, editMode, fieldDescriptions, loadVars, addition,
                 lookupFetch, storeVars, saves>>

\* The request fails in transport, answered or not: catch of saveEdit.
SaveFails ==
  /\ save.state \in {"sent", "applied", "refused"}
  /\ ShowStatus("error", "Errore di connessione")
  /\ IF save.property = "valid_values" THEN UNCHANGED modalVars ELSE CloseModal
  /\ save' = [save EXCEPT !.state = "failed", !.matrixData = NoMatrix]
  /\ UNCHANGED <<panelVars, domainVars>>
  /\ UNCHANGED <<matrixData, editMode, fieldDescriptions, loadVars, addition,
                 lookupFetch, storeVars, saves>>

\* ----------------------------------------------------- addFieldToVersion

DefaultLength == 10

\* Math.round of a mean of non-negative integers
RoundedMean(sum, n) == (2 * sum + n) \div (2 * n)

RECURSIVE SumOf(_, _)
SumOf(f, S) ==
  IF S = {} THEN 0
  ELSE LET x == CHOOSE x \in S : TRUE IN f[x] + SumOf(f, S \ {x})

\* Math.max(...positions) over a non-empty set of cells
MaxPositionOf(m, S) == CHOOSE p \in {m[c].position : c \in S} :
                         \A c \in S : m[c].position <= p

\* The position the prompt proposes for a field added to a version.
suggestedPosition(m, cell) ==
  LET inVersion == {c \in Cells : c[2] = cell[2] /\ m[c].present}
      ofField == {c \in Cells : c[1] = cell[1] /\ m[c].present}
      next == IF inVersion = {} THEN 0 ELSE MaxPositionOf(m, inVersion) + 1
      avg == RoundedMean(SumOf([c \in Cells |-> m[c].position], ofField),
                         Cardinality(ofField))
  IN IF ofField = {} THEN next ELSE IF avg > next THEN avg ELSE next

\* parseInt(positionInput) || suggestedPosition
finalPosition(input, suggested) ==
  IF isNaN(parseInt(input)) \/ parseInt(input) = 0 THEN suggested
  ELSE parseInt(input)

\* addFieldToVersion, confirmed, with the text entered at the prompt.
AddField(cell, input) ==
  /\ MatrixShown /\ editMode
  /\ ~matrixData[cell].present
  /\ save.state \notin {"sent", "applied", "refused"}
  /\ addition.state \notin {"sent", "applied", "refused"}
  /\ saves < MaxSaves
  /\ saves' = saves + 1
  /\ addition' = [state |-> "sent", cell |-> cell,
                  position |-> finalPosition(input, suggestedPosition(matrixData, cell)),
                  matrixData |-> matrixData]
  /\ UNCHANGED <<panelVars, domainVars>>
  /\ UNCHANGED <<matrixData, editMode, fieldDescriptions, modalVars, statusVars,
                 loadVars, save, lookupFetch, storeVars>>

\* Back end: the store puts the new field definition.
StoreAdds ==
  /\ addition.state = "sent"
  /\ ~catalog[addition.cell].present
  /\ catalog' = [catalog EXCEPT ![addition.cell] =
                   [present |-> TRUE, position |-> addition.position,
                    length |-> DefaultLength, table |-> <<>>]]
  /\ addition' = [addition EXCEPT !.state = "applied"]
  /\ UNCHANGED <<panelVars, domainVars>>
  /\ UNCHANGED <<matrixData, editMode, fieldDescriptions, modalVars, statusVars,
                 loadVars, save, lookupFetch, held, saves>>

\* Back end: the store answers success: false.
StoreRefusesAdd ==
  /\ addition.state = "sent"
  /\ addition' = [addition EXCEPT !.state = "refused"]
  /\ UNCHANGED <<panelVars, domainVars>>
  /\ UNCHANGED <<matrixData, editMode, fieldDescriptions, modalVars, statusVars,
                 loadVars, save, lookupFetch, storeVars, saves>>

\* The field is put into the matrix the handler closed over; a reload is
\* scheduled.
FieldAdded ==
  /\ addition.state = "applied"
  /\ matrixData' = [addition.matrixData EXCEPT ![addition.cell] =
                      [present |-> TRUE, position |-> addition.position,
                       length |-> DefaultLength, valid_values |-> <<>>]]
  /\ ShowStatusFor("success", "Campo aggiunto", 5000)
  /\ loads' = [loads EXCEPT !.scheduled = @ + 1]
  /\ addition' = NoAddition
  /\ UNCHANGED <<panelVars, domainVars>>
  /\ UNCHANGED <<matrixLoading, matrixError, editMode, fieldDescriptions, modalVars,
                 save, lookupFetch, storeVars, saves>>

\* success: false, or the request fails in transport: an error status.
AddFails ==
  /\ addition.state \in {"sent", "applied", "refused"}
  /\ ShowStatus("error", "Errore nell'aggiunta del campo")
  /\ addition' = NoAddition
  /\ UNCHANGED <<panelVars, domainVars>>
  /\ UNCHANGED <<matrixData, editMode, fieldDescriptions, modalVars, loadVars,
                 save, lookupFetch, storeVars, saves>>

\* ------------------------------------------------------- keyboard shortcut

\* Ctrl+Enter while the modal is open.  The keydown handler is installed by an
\* effect that runs only when showEditModal changes, so it calls the saveEdit
\* of the render in which the modal opened: that saveEdit sees the
\* modalEditData of that render and, as editValue, the value the editor was
\* opened with.
CtrlEnter ==
  /\ SaveClicked
  /\ LET opened == modalEditData.currentValue
         number == parseInt(opened)
     IN IF \/ modalEditData.property = "position" /\ (isNaN(number) \/ number < 0)
           \/ modalEditData.property = "length" /\ (isNaN(number) \/ number < 1)
        THEN /\ ShowStatus("error", InvalidNumberMessage)
             /\ UNCHANGED save
        ELSE IF modalEditData.property = "valid_values" /\ ParseValues(opened) = <<>>
        THEN /\ ShowStatus("error", "Inserisci almeno un valore")
             /\ UNCHANGED save
        ELSE /\ save' = [SaveRequest(IF modalEditData.property = "valid_values"
                                     THEN ParseValues(opened) ELSE <<>>)
                           EXCEPT !.editValue = opened]
             /\ UNCHANGED statusVars
  /\ UNCHANGED <<panelVars, domainVars>>
  /\ UNCHANGED <<matrixData, editMode, fieldDescriptions, modalVars, loadVars,
                 addition, lookupFetch, storeVars>>

\* -------------------------------------------------- removeFieldFromVersion

\* `Campo "${fieldName}" rimosso dalla versione ${version}.`
RemovedMessage(cell) ==
  CASE cell = <<"ring_number", "2000">> -> "Campo ring_number rimosso dalla versione 2000."
    [] cell = <<"ring_number", "2020">> -> "Campo ring_number rimosso dalla versione 2020."
    [] cell = <<"species_code", "2000">> -> "Campo species_code rimosso dalla versione 2000."
    [] OTHER -> "Campo species_code rimosso dalla versione 2020."

\* The bin of a field in edit mode, confirmed: versions[version] = null in the
\* matrix on screen and a success status; no request is made.  Taken while no
\* update or addition is in flight.
removeFieldFromVersion(cell) ==
  /\ MatrixShown /\ editMode
  /\ matrixData[cell].present
  /\ save.state \notin {"sent", "applied", "refused"}
  /\ addition.state \notin {"sent", "applied", "refused"}
  /\ matrixData' = [matrixData EXCEPT ![cell] = NullField]
  /\ ShowStatusFor("success", RemovedMessage(cell), 3000)
  /\ UNCHANGED <<panelVars, domainVars>>
  /\ UNCHANGED <<editMode, fieldDescriptions, modalVars, loadVars, save, addition,
                 lookupFetch, storeVars, saves>>

\* ------------------------------------------------------------ domain panel

\* The panel is followed from the moment the list of domains is on screen,
\* through two of the seven domains.
DomainNames == {"species", "temporal"}

Views == {"overview", "evolution", "charts", "documentation", "analysis",
          "compatibility", "export"}

\* The versions of the evolution entries a timeline shows.
TimelineVersions == {"1966", "1979", "2020"}

NoDomainData ==
  [evolution |-> "", documentation |-> "", fields |-> "", compatibility |-> ""]

\* The state a view's request fills: the branch of loadDomainData taken for
\* it, "" for the views that load nothing.
DataOf(view) ==
  CASE view \in {"evolution", "charts"} -> "evolution"
    [] view = "documentation" -> "documentation"
    [] view = "analysis" -> "fields"
    [] view = "compatibility" -> "compatibility"
    [] OTHER -> ""

DomainInit ==
  /\ selectedDomain = ""
  /\ activeView = "overview"
  /\ domainData = NoDomainData
  /\ evolutionLoading = FALSE
  /\ domainError = ""
  /\ domainRequests = {}
  /\ comparisonVersions = <<>>
  /\ selectedVersions = <<>>
  /\ selectedDomains = <<>>

\* The content area shows the views: neither the spinner nor the error box.
ContentShown == selectedDomain # "" /\ ~evolutionLoading /\ domainError = ""

\* The timeline is rendered: its state lives as long as it stays rendered.
TimelineMounted ==
  ContentShown /\ activeView = "evolution" /\ domainData.evolution # ""

\* A child that is not rendered loses its useState.
TimelineKept ==
  selectedVersions' = IF TimelineMounted' THEN selectedVersions ELSE <<>>

\* loadDomainData up to its await: the views that load nothing run through
\* to the finally clause at once.
loadDomainData(domain, view) ==
  /\ domainError' = ""
  /\ IF DataOf(view) = ""
     THEN /\ evolutionLoading' = FALSE
          /\ UNCHANGED domainRequests
     ELSE /\ Cardinality(domainRequests) < MaxRequests
          /\ evolutionLoading' = TRUE
          /\ domainRequests' = domainRequests \cup {[domain |-> domain, view |-> view]}

\* useEffect [selectedDomain, activeView], run after the render that follows
\* the handler.
DomainEffect(domain, view) ==
  IF (domain # selectedDomain \/ view # activeView) /\ domain # ""
  THEN loadDomainData(domain, view)
  ELSE UNCHANGED <<domainError, evolutionLoading, domainRequests>>

\* A card of the domain grid, or a related domain of the documentation.
handleDomainSelect(domain) ==
  /\ \/ selectedDomain = ""
     \/ ContentShown /\ activeView = "documentation" /\ domainData.documentation # ""
  /\ selectedDomain' = domain
  /\ domainData' = NoDomainData
  /\ activeView' = "overview"
  /\ DomainEffect(domain, "overview")
  /\ UNCHANGED <<comparisonVersions, selectedDomains>>
  /\ TimelineKept
  /\ UNCHANGED <<panelVars, matrixVars>>

\* The back button: setSelectedDomain(null) and nothing else.
BackToDomains ==
  /\ selectedDomain # ""
  /\ selectedDomain' = ""
  /\ DomainEffect("", activeView)
  /\ UNCHANGED <<activeView, domainData, comparisonVersions, selectedDomains>>
  /\ TimelineKept
  /\ UNCHANGED <<panelVars, matrixVars>>

handleViewChange(view) ==
  /\ selectedDomain # ""
  /\ activeView' = view
  /\ domainData' = NoDomainData
  /\ comparisonVersions' = <<>>
  /\ DomainEffect(selectedDomain, view)
  /\ UNCHANGED <<selectedDomain, selectedDomains>>
  /\ TimelineKept
  /\ UNCHANGED <<panelVars, matrixVars>>

\* The retry button of the error box and the analyse button of the
\* compatibility view call loadDomainData of the current render.
ReloadDomainData ==
  /\ selectedDomain # ""
  /\ ~evolutionLoading
  /\ domainError # "" \/ activeView = "compatibility"
  /\ loadDomainData(selectedDomain, activeView)
  /\ UNCHANGED <<selectedDomain, activeView, domainData, comparisonVersions,
                 selectedDomains>>
  /\ TimelineKept
  /\ UNCHANGED <<panelVars, matrixVars>>

\* A suspended loadDomainData resumes with the data of the domain it asked
\* for and stores it in the state of the branch it was called in.
DomainResponds(r) ==
  /\ r \in domainRequests
  /\ domainRequests' = domainRequests \ {r}
  /\ domainData' = [domainData EXCEPT ![DataOf(r.view)] = r.domain]
  /\ evolutionLoading' = FALSE
  /\ UNCHANGED <<selectedDomain, activeView, domainError, comparisonVersions,
                 selectedDomains>>
  /\ TimelineKept
  /\ UNCHANGED <<panelVars, matrixVars>>

\* The response reports a failure, or the request throws.
DomainFails(r) ==
  /\ r \in domainRequests
  /\ domainRequests' = domainRequests \ {r}
  /\ domainError' = "Failed to load domain data"
  /\ evolutionLoading' = FALSE
  /\ UNCHANGED <<selectedDomain, activeView, domainData, comparisonVersions,
                 selectedDomains>>
  /\ TimelineKept
  /\ UNCHANGED <<panelVars, matrixVars>>

\* A click on every marker, whatever was selected.
AppendVersion(prev, version) == Append(prev, version)

\* The updater of handleVersionSelect.
SelectVersion(prev, version) ==
  IF \E i \in 1..Len(prev) : prev[i] = version
  THEN SelectSeq(prev, LAMBDA v : v # version)
  ELSE IF Len(prev) < 2
  THEN Append(prev, version)
  ELSE <<prev[2], version>>

handleVersionSelect(version) ==
  /\ TimelineMounted
  /\ selectedVersions' = SelectVersion(selectedVersions, version)
  /\ UNCHANGED <<viewVars, comparisonVersions, selectedDomains>>
  /\ UNCHANGED <<panelVars, matrixVars>>

\* The compare button is rendered with two versions selected.
CompareShown == TimelineMounted /\ Len(selectedVersions) = 2

\* handleCompare, then handleCompareVersions of the panel.
handleCompare ==
  /\ CompareShown
  /\ IF Len(selectedVersions) = 2
     THEN comparisonVersions' = <<selectedVersions[1], selectedVersions[2]>>
     ELSE UNCHANGED comparisonVersions
  /\ UNCHANGED <<viewVars, selectedVersions, selectedDomains>>
  /\ UNCHANGED <<panelVars, matrixVars>>

handleCloseComparison ==
  /\ comparisonVersions # <<>>
  /\ comparisonVersions' = <<>>
  /\ UNCHANGED <<viewVars, selectedVersions, selectedDomains>>
  /\ UNCHANGED <<panelVars, matrixVars>>

\* ------------------------------------------------------ domain facet filter

\* The keys of DOMAIN_INFO, in the order the filter lists them.
SemanticDomains ==
  {"identification_marking", "species", "demographics", "temporal", "spatial",
   "biometrics", "methodology"}

\* A toggle that only ever selects.
SelectDomain(prev, domain) == Append(prev, domain)

\* The updater of handleDomainFilter.
ToggleDomain(prev, domain) ==
  IF \E i \in 1..Len(prev) : prev[i] = domain
  THEN SelectSeq(prev, LAMBDA d : d # domain)
  ELSE Append(prev, domain)

handleDomainFilter(domain) ==
  /\ selectedDomains' = ToggleDomain(selectedDomains, domain)
  /\ UNCHANGED <<viewVars, timelineVars>>
  /\ UNCHANGED <<panelVars, matrixVars>>

\* selectedDomains.forEach(domain => onDomainToggle(domain)): the updaters
\* queue up and run one after the other on the state.
RECURSIVE ToggleEach(_, _)
ToggleEach(prev, clicked) ==
  IF clicked = <<>> THEN prev
  ELSE ToggleEach(ToggleDomain(prev, Head(clicked)), Tail(clicked))

\* The button is rendered while something is selected.
ClearFilters ==
  /\ Len(selectedDomains) > 0
  /\ selectedDomains' = ToggleEach(selectedDomains, selectedDomains)
  /\ UNCHANGED <<viewVars, timelineVars>>
  /\ UNCHANGED <<panelVars, matrixVars>>

\* ------------------------------------------------------- specifications

Submit(f, text) ==
  \/ SubmitEmpty(f, text)
  \/ SubmitSameVersion(f, text)
  \/ SubmitOversized(f, text)
  \/ SubmitInvalid(f, text)
  \/ SubmitRecognize(f, text)
  \/ SubmitConvert(f, text)
  \/ SubmitDetect(f, text)

PanelNext ==
  \/ \E f \in Forms : \E text \in Texts(f) : Submit(f, text)
  \/ \E i \in inflight : DetectRespond(i)
  \/ \E i \in inflight : DetectFail(i)
  \/ Admit
  \/ \E i \in Running(job) : BackendFinish(i)
  \/ BatchRespond
  \/ SingleRespond
  \/ TransportFail

vars == <<panelVars, matrixVars, domainVars>>

Init == PanelInit /\ MatrixInit /\ DomainInit

SpecPanels == Init /\ [][PanelNext]_vars

\* Batches one item wider than the back end's worker pool, answered without
\* transport failures.
WideText == [i \in 1..(MaxConcurrent + 1) |-> IF i = 1 THEN "s2020" ELSE "s1966"]

WideForms ==
  {[panel |-> "recognize", batchMode |-> TRUE, useAutoDetect |-> FALSE,
    sourceVersion |-> "1966", targetVersion |-> "2020"],
   [panel |-> "convert", batchMode |-> TRUE, useAutoDetect |-> FALSE,
    sourceVersion |-> "1966", targetVersion |-> "2020"],
   [panel |-> "convert", batchMode |-> TRUE, useAutoDetect |-> TRUE,
    sourceVersion |-> "1966", targetVersion |-> "2020"]}

WideNext ==
  \/ \E f \in WideForms : SubmitRecognize(f, WideText)
  \/ \E f \in WideForms : SubmitConvert(f, WideText)
  \/ \E f \in WideForms : SubmitDetect(f, WideText)
  \/ \E i \in inflight : DetectRespond(i)
  \/ Admit
  \/ \E i \in Running(job) : BackendFinish(i)
  \/ BatchRespond

SpecWide == Init /\ [][WideNext]_vars

\* Every HTTP request settles: axios is created with timeout: 30000, so a request
\* that is not answered fails.  The back end's workers keep working.
DetectSettles == \E i \in inflight : DetectRespond(i) \/ DetectFail(i)
RequestSettles == BatchRespond \/ SingleRespond \/ TransportFail
WorkerProgress == \E i \in Running(job) : BackendFinish(i)

FairPanels ==
  /\ SpecPanels
  /\ WF_vars(DetectSettles)
  /\ WF_vars(RequestSettles)
  /\ WF_vars(WorkerProgress)

\* The editor of the valid values of the fields.
LookupNext ==
  \/ LoadStarts
  \/ LoadDelivered
  \/ LoadFails
  \/ ToggleEditMode
  \/ StatusTimerFires
  \/ \E c \in Cells : RenderValues(c)
  \/ \E c \in Cells : OpenValuesEditor(c)
  \/ \E c \in Cells : AddValuesEditor(c)
  \/ \E text \in ValueTexts : TypeValue(text)
  \/ cancelEdit
  \/ FetchServed
  \/ FetchDelivered
  \/ FetchFails
  \/ SaveNoValues
  \/ SaveValues
  \/ StoreApplies
  \/ StoreRefuses
  \/ LookupSaved
  \/ SaveRefused
  \/ SaveFails

SpecLookup == Init /\ [][LookupNext]_vars

\* The editor of the positions and lengths of the fields, and the addition
\* of a field to a version.
FieldsNext ==
  \/ LoadStarts
  \/ LoadDelivered
  \/ LoadFails
  \/ ToggleEditMode
  \/ StatusTimerFires
  \/ \E c \in Cells : \E property \in {"position", "length"} :
        OpenNumberEditor(c, property)
  \/ \E text \in PositionTexts : TypeValue(text)
  \/ cancelEdit
  \/ SaveInvalidNumber
  \/ SaveField
  \/ StoreApplies
  \/ StoreRefuses
  \/ FieldSaved
  \/ SaveRefused
  \/ SaveFails
  \/ \E c \in Cells : \E input \in PositionTexts : AddField(c, input)
  \/ StoreAdds
  \/ StoreRefusesAdd
  \/ FieldAdded
  \/ AddFails

SpecFields == Init /\ [][FieldsNext]_vars

\* Back end: a catalog whose fields have valid values without custom meanings,
\* one of a field that has a predefined table and one of a field that has
\* none, next to a field with a custom table.
FallbackCatalog ==
  [c \in Cells |->
     CASE c = <<"ring_number", "2000">> ->
            [present |-> TRUE, position |-> 0, length |-> 1,
             table |-> <<[code |-> "A0", meaning |-> ""],
                         [code |-> "B0", meaning |-> ""]>>]
       [] c = <<"ring_number", "2020">> ->
            [present |-> TRUE, position |-> 0, length |-> 1,
             table |-> <<[code |-> "A0", meaning |-> "x"]>>]
       [] c = <<"species_code", "2020">> ->
            [present |-> TRUE, position |-> 1, length |-> 2,
             table |-> <<[code |-> "A0", meaning |-> ""]>>]
       [] OTHER ->
            [present |-> FALSE, position |-> 0, length |-> 0, table |-> <<>>]]

FallbackInit ==
  /\ PanelInit
  /\ DomainInit
  /\ matrixData = NoMatrix
  /\ matrixLoading = TRUE
  /\ matrixError = ""
  /\ editMode = FALSE
  /\ fieldDescriptions = [c \in Cells |-> NoDescriptions]
  /\ showEditModal = FALSE
  /\ modalEditData = NoModal
  /\ editValue = <<>>
  /\ saveStatus = NoStatus
  /\ statusTimers = <<>>
  /\ save = NoSave
  /\ addition = NoAddition
  /\ lookupFetch = NoFetch
  /\ loads = [scheduled |-> 0, flying |-> 1]
  /\ catalog = FallbackCatalog
  /\ held = [c \in Cells |-> {FallbackCatalog[c].table}]
  /\ saves = 0

\* The matrix read and its values opened, without saves.
FallbackNext ==
  \/ LoadStarts
  \/ LoadDelivered
  \/ LoadFails
  \/ ToggleEditMode
  \/ \E c \in Cells : RenderValues(c)
  \/ \E c \in Cells : OpenValuesEditor(c)
  \/ cancelEdit
  \/ FetchServed
  \/ FetchDelivered
  \/ FetchFails

SpecFallback == FallbackInit /\ [][FallbackNext]_vars

\* The editor of positions and lengths with the removal of fields.
RemovalNext ==
  \/ LoadStarts
  \/ LoadDelivered
  \/ LoadFails
  \/ ToggleEditMode
  \/ StatusTimerFires
  \/ \E c \in Cells : \E property \in {"position", "length"} :
        OpenNumberEditor(c, property)
  \/ \E text \in PositionTexts : TypeValue(text)
  \/ cancelEdit
  \/ SaveInvalidNumber
  \/ SaveField
  \/ StoreApplies
  \/ StoreRefuses
  \/ FieldSaved
  \/ SaveRefused
  \/ SaveFails
  \/ \E c \in Cells : removeFieldFromVersion(c)

SpecRemoval == Init /\ [][RemovalNext]_vars

\* The editor of positions and lengths, saved by the button or by Ctrl+Enter;
\* an editor is opened while no modal is open.
ShortcutNext ==
  \/ LoadStarts
  \/ LoadDelivered
  \/ LoadFails
  \/ ToggleEditMode
  \/ StatusTimerFires
  \/ \E c \in Cells : \E property \in {"position", "length"} :
        ~showEditModal /\ OpenNumberEditor(c, property)
  \/ \E text \in PositionTexts : TypeValue(text)
  \/ cancelEdit
  \/ SaveInvalidNumber
  \/ SaveField
  \/ CtrlEnter
  \/ StoreApplies
  \/ StoreRefuses
  \/ FieldSaved
  \/ SaveRefused
  \/ SaveFails

SpecShortcut == Init /\ [][ShortcutNext]_vars

\* The panels given strings that hold both pipes and spaces: alone in single
\* mode, next to well-formed strings in batch mode.
MixedBatches == {<<"mixed">>, <<"mixed", "s1966">>, <<"s2020", "mixed">>}

MixedTexts(f) == IF f.batchMode THEN MixedBatches ELSE SingleTexts

SeparatorsNext ==
  \/ \E f \in Forms : \E text \in MixedTexts(f) : SubmitEmpty(f, text)
  \/ \E f \in Forms : \E text \in MixedTexts(f) : SubmitSameVersion(f, text)
  \/ \E f \in Forms : \E text \in MixedTexts(f) : SubmitInvalid(f, text)
  \/ \E f \in Forms : \E text \in MixedTexts(f) : SubmitRecognize(f, text)
  \/ \E f \in Forms : \E text \in MixedTexts(f) : SubmitConvert(f, text)
  \/ \E f \in Forms : \E text \in MixedTexts(f) : SubmitDetect(f, text)
  \/ \E i \in inflight : DetectRespond(i)
  \/ \E i \in inflight : DetectFail(i)
  \/ Admit
  \/ \E i \in Running(job) : BackendFinish(i)
  \/ BatchRespond
  \/ SingleRespond
  \/ TransportFail

SpecSeparators == Init /\ [][SeparatorsNext]_vars

\* The valid-values editor over a few typed texts: a code described twice,
\* bare codes and the empty box.
CacheTexts ==
  {<<Ln("A0", "x"), Ln("A0", "y")>>, <<Bare("A0, B0")>>, <<>>}

CacheNext ==
  \/ LoadStarts
  \/ LoadDelivered
  \/ LoadFails
  \/ ToggleEditMode
  \/ StatusTimerFires
  \/ \E c \in Cells : RenderValues(c)
  \/ \E c \in Cells : OpenValuesEditor(c)
  \/ \E c \in Cells : AddValuesEditor(c)
  \/ \E text \in CacheTexts : TypeValue(text)
  \/ cancelEdit
  \/ FetchServed
  \/ FetchDelivered
  \/ FetchFails
  \/ SaveNoValues
  \/ SaveValues
  \/ StoreApplies
  \/ StoreRefuses
  \/ LookupSaved
  \/ SaveRefused
  \/ SaveFails

SpecCache == Init /\ [][CacheNext]_vars

\* The domain panel with its timeline.
DomainNext ==
  \/ \E d \in DomainNames : handleDomainSelect(d)
  \/ BackToDomains
  \/ \E view \in Views : handleViewChange(view)
  \/ ReloadDomainData
  \/ \E r \in domainRequests : DomainResponds(r)
  \/ \E r \in domainRequests : DomainFails(r)
  \/ \E v \in TimelineVersions : handleVersionSelect(v)
  \/ handleCompare
  \/ handleCloseComparison

SpecDomains == Init /\ [][DomainNext]_vars

\* The facet filter of the matrix.
FacetNext ==
  \/ \E d \in SemanticDomains : handleDomainFilter(d)
  \/ ClearFilters

SpecFacets == Init /\ [][FacetNext]_vars

\* ------------------------------------------------------------------ claims

\* The running handler was given a batch within its panel's cap.
BatchAccepted ==
  form.batchMode /\ strings # <<>> /\ Len(strings) <= BatchCap(form.panel)

\* C1: a batch with more items than its panel's cap (100 recognitions, 50
\* conversions) is rejected whole before any work begins: no recognize,
\* convert or batch request has been issued for it, nothing reached the back
\* end, and the panel shows the size error with zero results.
BatchSizeEnforced ==
  (form.batchMode /\ Len(strings) > BatchCap(form.panel)) =>
    /\ inflight = {}
    /\ slots = <<>>
    /\ request = "none"
    /\ job = NoJob
    /\ results = <<>>
    /\ error = TooManyMessage(form.panel)
    /\ ~loading

\* C1 witness: 51 strings were submitted to the conversion panel and refused.
OversizedConversionRefused ==
  /\ form.panel = "convert"
  /\ form.batchMode
  /\ Len(strings) = ConversionBatchCap + 1
  /\ error = "Massimo 50 stringhe per batch conversion"
  /\ results = <<>>

\* A string no layout matches.
Malformed(s) == LayoutOf(s) = ""

\* Item i of the running batch is one the back end can serve: well formed and,
\* for a conversion, requested from its own layout into another one.
ValidItem(i) ==
  /\ ~Malformed(strings[i])
  /\ form.panel = "convert" =>
       /\ slots[i].source_version = VersionMatch(LayoutOf(strings[i]))
       /\ slots[i].source_version # form.targetVersion

Successes == {i \in 1..Len(results) : results[i].success}
Failures == {i \in 1..Len(results) : ~results[i].success}

\* C2: one item's failure never aborts its siblings.  An accepted batch ends
\* either answered or with the batch request itself failed in transport; when
\* answered there is one result per item, successful exactly for the valid
\* items and carrying an error otherwise, so a batch of N items of which
\* exactly one is malformed and the others valid shows N-1 successes and 1
\* failure.
PartialFailureIsolation ==
  (BatchAccepted /\ pc = "idle") =>
    /\ request \in {"answered", "failed"}
    /\ request = "answered" =>
         /\ Len(results) = Len(strings)
         /\ \A i \in 1..Len(strings) :
              /\ results[i].success <=> ValidItem(i)
              /\ ~results[i].success => results[i].error # ""
         /\ ( /\ Cardinality({i \in 1..Len(strings) : Malformed(strings[i])}) = 1
              /\ \A i \in 1..Len(strings) : Malformed(strings[i]) \/ ValidItem(i) )
            => /\ Cardinality(Successes) = Len(strings) - 1
               /\ Cardinality(Failures) = 1

\* C2 witness: an auto-detected conversion batch of a malformed string and a
\* valid one was answered with one failure and one success.
OneFailureOneSuccess ==
  /\ form.panel = "convert"
  /\ form.useAutoDetect
  /\ form.batchMode
  /\ request = "answered"
  /\ strings = <<"garbage", "s1966">>
  /\ ~results[1].success
  /\ results[2].success

\* C3: batch results match input order whatever order the items completed in:
\* result i carries string i and the outcome computed for string i.
OrderPreserved ==
  (form.batchMode /\ request = "answered") =>
    /\ Len(results) = Len(strings)
    /\ \A i \in 1..Len(strings) :
         /\ results[i].original_string = strings[i]
         /\ IF form.panel = "recognize"
            THEN /\ results[i].euring_string = strings[i]
                 /\ results[i].version = LayoutOf(strings[i])
            ELSE /\ slots[i].euring_string = strings[i]
                 /\ results[i].source_version = slots[i].source_version
                 /\ results[i].success =>
                      results[i].converted_string = <<strings[i], form.targetVersion>>
                 /\ results[i].success = ConvertItem(slots[i]).success

\* C3 witness: a batch of two different strings was answered although the
\* back end finished the first string last.
AnsweredOutOfOrder ==
  /\ form.batchMode
  /\ form.panel = "convert"
  /\ form.useAutoDetect
  /\ request = "answered"
  /\ Len(strings) >= 2
  /\ strings[1] # strings[2]
  /\ job.last = 1

\* C4: at every moment at most max_concurrent (10) items of a batch are being
\* processed: recognize requests in flight for it, or items a back-end worker
\* is on.
ConcurrencyBounded ==
  /\ Cardinality(inflight) <= MaxConcurrent
  /\ Cardinality(Running(job)) <= MaxConcurrent

\* C5: no mid-batch cancellation.  Once the strings of a batch are being
\* auto-detected, the batch request goes out with every one of them; once the
\* back end has accepted a batch, every item of it gets its outcome, whether
\* or not the client is still waiting.
NoMidBatchCancellation ==
  /\ (pc = "detect") ~> (request = "sent" /\ Len(slots) = Len(strings)
                          /\ \A i \in 1..Len(slots) : slots[i] # Pending)
  /\ (request = "admitted") ~> JobDrained

\* C5 witness: the client gave up on a batch request the back end had accepted,
\* and the back end still finished every item.
AbandonedBatchFinished ==
  /\ request = "failed"
  /\ job # NoJob
  /\ Len(job.reqs) = MaxLines
  /\ JobDrained

\* C6: no operation blocks indefinitely: a submission that set the loading flag
\* ends with the flag cleared and either results or an error on display.
LoadingEnds ==
  loading ~> (~loading /\ (results # <<>> \/ error # ""))

\* C6 witness: an auto-detected single conversion was answered and shown.
SingleConversionShown ==
  /\ form.panel = "convert"
  /\ ~form.batchMode
  /\ form.useAutoDetect
  /\ request = "answered"
  /\ ~loading
  /\ Len(results) = 1

\* What a reader of the matrix is shown for the values of a cell.
ShownValues(c) ==
  DisplayedValues(matrixData[c].valid_values, fieldDescriptions[c].descriptions)

\* The whole of a lookup table, as a reader would be shown it.
WholeTable(table) == DisplayedValues(CodesOf(table), Descriptions(table))

\* C7: a reader of a cell whose meanings are loaded is shown either the
\* complete old table or the complete new one: the codes and meanings on
\* screen are those of one table the back end has held for the cell.
ReadersSeeWholeTables ==
  \A c \in Cells :
    matrixData[c].present /\ fieldDescriptions[c].cached
      => \E table \in held[c] : ShownValues(c) = WholeTable(table)

\* A successful lookup update is being completed by its handler.
LookupUpdateCompletes ==
  /\ save.state = "applied"
  /\ save.property = "valid_values"
  /\ save'.state = "saved"

CodeSet(codes) == {codes[i] : i \in 1..Len(codes)}

CodesUnique ==
  \A c \in Cells :
    \A i, j \in 1..Len(matrixData[c].valid_values) :
      matrixData[c].valid_values[i] = matrixData[c].valid_values[j] => i = j

\* C10: no two fields of a version have the same position.
PositionsUnique ==
  \A c, d \in Cells :
    /\ c # d /\ c[2] = d[2]
    /\ matrixData[c].present /\ matrixData[d].present
    => matrixData[c].position # matrixData[d].position

\* C11: converting a string to its own source version fails with an explicit
\* same-version error.  With the source version selected by hand and equal to
\* the target, the form refuses the submission with the same-version message
\* (the empty-input message when no string was entered) and issues no
\* request; with the source version auto-detected, every answered conversion
\* whose source equals its target has success = false and the same-version
\* error.
SameVersionFails ==
  /\ ( /\ submits > 0
       /\ form.panel = "convert"
       /\ ~form.useAutoDetect
       /\ form.sourceVersion = form.targetVersion )
     => /\ error \in {"La versione sorgente e quella target devono essere diverse",
                      "Inserisci almeno una stringa EURING"}
        /\ request = "none"
        /\ slots = <<>>
        /\ inflight = {}
        /\ job = NoJob
  /\ (form.panel = "convert" /\ request = "answered")
     => \A i \in 1..Len(results) :
          slots[i].source_version = slots[i].target_version
            => /\ ~results[i].success
               /\ results[i].error = "same_version"

\* C11 witness: a 2020 string was auto-detected as 2020, converted to 2020 and
\* answered with the same-version failure.
SameVersionDetected ==
  /\ form.panel = "convert"
  /\ form.useAutoDetect
  /\ form.sourceVersion = "1966"
  /\ form.targetVersion = "2020"
  /\ request = "answered"
  /\ strings = <<"s2020">>
  /\ slots[1].source_version = "2020"
  /\ ~results[1].success
  /\ results[1].error = "same_version"

\* String s holds both pipes and spaces.
MixesSeparators(s) == HasPipes(s) /\ HasSpaces(s)

EmptyBatchAborts ==
  (submits > 0 /\ form.batchMode /\ strings = <<>>) =>
    /\ request = "none"
    /\ inflight = {}
    /\ slots = <<>>
    /\ job = NoJob
    /\ ~loading
    /\ pc = "idle"
    /\ \/ error = "Inserisci almeno una stringa EURING"
       \/ /\ error = "La versione sorgente e quella target devono essere diverse"
          /\ form.panel = "convert"
          /\ ~form.useAutoDetect
          /\ form.sourceVersion = form.targetVersion

\* C13 witness: a blank text was submitted to the conversion panel in batch
\* mode with auto-detect on, and refused.
EmptyBatchRefused ==
  /\ submits = 1
  /\ form.panel = "convert"
  /\ form.batchMode
  /\ form.useAutoDetect
  /\ strings = <<>>
  /\ error = "Inserisci almeno una stringa EURING"
  /\ request = "none"

\* C14: every response carries an explicit success flag and, when success is
\* false, a non-empty error message.  Each outcome the back end files and
\* each result the panels show has a Boolean success and, when it is false,
\* an error text; a request that got no response at all leaves the handler
\* with a non-empty error on display and no results.
FailuresCarryMessage ==
  /\ \A i \in job.done :
       /\ job.out[i].success \in BOOLEAN
       /\ ~job.out[i].success => job.out[i].error # ""
  /\ \A i \in 1..Len(results) :
       /\ results[i].success \in BOOLEAN
       /\ ~results[i].success => results[i].error # ""
  /\ request = "failed" => (error # "" /\ results = <<>>)

\* C14 witness: a single string no layout matches was sent for recognition
\* and the response shown is a failure with its message.
FailureShownWithMessage ==
  /\ form.panel = "recognize"
  /\ ~form.batchMode
  /\ request = "answered"
  /\ strings = <<"garbage">>
  /\ Len(results) = 1
  /\ ~results[1].success
  /\ results[1].error = "format"

\* The stored valid values of cell c carry no custom meaning.
NoCustomTable(c) ==
  \A i \in 1..Len(catalog[c].table) : catalog[c].table[i].meaning = ""

AverageConfidence ==
  LET counted == {i \in 1..Len(results) :
                    /\ "confidence" \in DOMAIN results[i]
                    /\ results[i].success /\ results[i].confidence # 0}
      total == SumOf([i \in counted |-> results[i].confidence], counted)
  IN IF counted = {} THEN 0
     ELSE (2 * total + 10 * Cardinality(counted)) \div (20 * Cardinality(counted))

\* C16: all confidence values lie in [0,1].  Every recognition outcome the
\* back end files and every recognition result shown, single or in a batch,
\* successful or not, has a confidence between 0 and 1 (0 and 1000
\* thousandths), is shown as a percentage between 0 and 100, and so is the
\* average the results panel shows.
ConfidenceBounded ==
  /\ form.panel = "recognize" =>
       \A i \in job.done :
         job.out[i].confidence >= 0 /\ job.out[i].confidence <= 1000
  /\ \A i \in 1..Len(results) :
       "confidence" \in DOMAIN results[i] =>
         /\ results[i].confidence >= 0
         /\ results[i].confidence <= 1000
         /\ formatConfidence(results[i].confidence) \in 0..100
  /\ AverageConfidence \in 0..100

\* C16 witness: a batch of a string no layout matches and a 2020 string was
\* recognised: a third and the whole of the discriminants passed, shown as
\* 33% and 100%.
ConfidencesShown ==
  /\ form.panel = "recognize"
  /\ form.batchMode
  /\ request = "answered"
  /\ strings = <<"garbage", "s2020">>
  /\ formatConfidence(results[1].confidence) = 33
  /\ formatConfidence(results[2].confidence) = 100
  /\ AverageConfidence = 100

ConfirmedChangesPersist ==
  /\ \A c \in Cells :
       saveStatus = [type |-> "success", message |-> RemovedMessage(c)] =>
         /\ ~catalog[c].present
         /\ MatrixShown => ~matrixData[c].present
  /\ (save.state = "saved" /\ save.property = "position") =>
       catalog[SaveCell].position = parseInt(save.editValue)
  /\ (save.state = "saved" /\ save.property = "length") =>
       catalog[SaveCell].length = parseInt(save.editValue)

\* C19: a position edit is accepted only if the entered value is an integer
\* >= 0 and a length edit only if it is an integer > 0; no update request is
\* sent for any other entered value.  Every update request of a position or
\* a length that saveEdit has issued carries the text of an integer within
\* the range of its property.
OnlyIntegersSent ==
  (save.state # "none" /\ save.property \in {"position", "length"}) =>
    /\ IsIntegerText(save.editValue)
    /\ save.property = "position" => parseInt(save.editValue) >= 0
    /\ save.property = "length" => parseInt(save.editValue) >= 1

\* C20: while the edit modal is open, Ctrl+Enter saves exactly as the Save
\* button does: whatever pressing Ctrl+Enter does in a state is what a click
\* on Save does in that state, so the request carries the text now in the
\* edit box for the field, version and property being edited.
CtrlEnterSavesAsButton ==
  [][CtrlEnter => (SaveInvalidNumber \/ SaveField \/ SaveNoValues \/ SaveValues)]_vars

\* ------------------------------------------------------------------- C21

\* C21: whatever markers of the timeline are clicked, at most two versions
\* are selected, and a comparison is opened only from exactly two selected
\* versions, which are the two it compares.
AtMostTwoSelected ==
  /\ [](Len(selectedVersions) <= 2)
  /\ [][comparisonVersions' # comparisonVersions /\ comparisonVersions' # <<>>
          => /\ Len(selectedVersions) = 2
             /\ comparisonVersions' = selectedVersions]_vars

\* A third marker was clicked with two selected, and the two now selected
\* are being compared.
ThirdVersionReplacedFirst ==
  /\ TimelineMounted
  /\ selectedVersions = <<"1979", "2020">>
  /\ comparisonVersions = <<"1979", "2020">>

\* ------------------------------------------------------------------- C22

\* C22: a request that fails with a network error is sent again before any
\* error is shown.  Every request of the panels is posted once by the
\* submission that built it, so each transport failure is the failure of a
\* first attempt: the step must leave the handler waiting on the request,
\* with no error on screen.
NetworkErrorRetried ==
  [][TransportFail => (pc' = "request" /\ error' = "" /\ loading')]_vars

\* ------------------------------------------------------------------- C23

\* C23: a click on the clear-filters button leaves no domain selected,
\* whatever was selected before.
ClearDeselectsAll ==
  [][ClearFilters => selectedDomains' = <<>>]_vars

\* Every one of the seven domains is selected and the clear button is on
\* screen: the selection a clear has most to undo.
AllSevenSelected ==
  Len(selectedDomains) = 7

\* ------------------------------------------------------------------- C24

\* C24: the data on screen in the domain panel are those of the selected
\* domain: a response that arrives after the domain changed is not shown
\* under the new domain.
ShownDataIsCurrent ==
  ContentShown /\ DataOf(activeView) # ""
    => domainData[DataOf(activeView)] \in {"", selectedDomain}

\* ------------------------------------------------------------------- C25

\* C25: the completion of a save touches only the edit that issued it.  When
\* the modal on screen belongs to another edit than the request that
\* completes, the completion leaves the modal open and its edit value alone.
SaveCompletionIsLocal ==
  [][/\ FieldSaved \/ LookupSaved \/ SaveRefused \/ SaveFails
     /\ showEditModal
     /\ <<modalEditData.fieldName, modalEditData.version, modalEditData.property>>
          # <<save.fieldName, save.version, save.property>>
     => UNCHANGED modalVars]_vars

\* ------------------------------------------------------------------- C26

\* C26: once the descriptions of a (field, version) are in cache they stay
\* there, and no display or edit of that (field, version) sends a lookup
\* request again: every lookup GET is sent for a cell that is not cached.
CachedCellsNotFetched ==
  [][/\ \A c \in Cells : fieldDescriptions[c].cached => fieldDescriptions'[c].cached
     /\ (lookupFetch.state = "none" /\ lookupFetch'.state = "sent")
          => ~fieldDescriptions[lookupFetch'.cell].cached]_vars

\* The values editor is open on a cell whose descriptions are in cache while
\* the lookup of another cell, not yet cached, is in flight.
EditorOpenedFromCache ==
  /\ showEditModal
  /\ modalEditData.property = "valid_values"
  /\ fieldDescriptions[<<modalEditData.fieldName, modalEditData.version>>].cached
  /\ lookupFetch.state = "sent"
  /\ lookupFetch.cell # <<modalEditData.fieldName, modalEditData.version>>

\* ------------------------------------------------------------------- C27

\* C27: a successful save of lookup values makes the cache entry of the
\* saved (field, version) the code-to-description pairs the store now holds
\* for it, and leaves the cache entry of every other (field, version) as it
\* was.
SaveUpdatesOwnCacheEntry ==
  [][LookupSaved =>
       /\ fieldDescriptions'[SaveCell].cached
       /\ fieldDescriptions'[SaveCell].descriptions
            = Descriptions(catalog[SaveCell].table)
       /\ \A c \in Cells \ {SaveCell} :
            fieldDescriptions'[c] = fieldDescriptions[c]]_vars

\* A save of lookup values has completed on one cell while another cell
\* keeps the descriptions fetched for it.
SavedBesideCachedCell ==
  /\ save.state = "saved"
  /\ save.property = "valid_values"
  /\ fieldDescriptions[SaveCell]
       = [cached |-> TRUE, descriptions |-> Descriptions(save.values)]
  /\ \E c \in Cells \ {SaveCell} :
       fieldDescriptions[c].cached /\ fieldDescriptions[c].descriptions # {}

\* ------------------------------------------------------------------- C28

\* C28: saving lookup values never closes the edit modal: not the click
\* that parses nothing, not the click that sends the values, and not the
\* completion of the request, be it a success, a refusal of the back end or
\* a failure of the request.
ValuesSaveKeepsModal ==
  [][\/ SaveNoValues
     \/ SaveValues
     \/ LookupSaved
     \/ (SaveRefused \/ SaveFails) /\ save.property = "valid_values"
     => /\ showEditModal' = showEditModal
        /\ modalEditData' = modalEditData]_vars

\* The back end refused a save of lookup values and the values editor is
\* still open on the cell.
ModalOpenAfterRefusedValues ==
  /\ save.state = "failed"
  /\ save.property = "valid_values"
  /\ showEditModal
  /\ modalEditData.property = "valid_values"
  /\ <<modalEditData.fieldName, modalEditData.version>> = SaveCell
  /\ saveStatus.type = "error"

\* ------------------------------------------------------------------- C29

\* C29: a field added with an integer >= 0 entered at the prompt, 0
\* included, is created at that position: the request of the addition
\* carries the position entered.
EnteredPositionUsed ==
  [][\A c \in Cells : \A input \in PositionTexts :
       (AddField(c, input) /\ IsIntegerText(input) /\ parseInt(input) >= 0)
         => addition'.position = parseInt(input)]_vars

\* ------------------------------------------------------------------- C30

\* C30: a status message stays on screen until its own timer fires or a
\* newer message replaces it.  The message on screen was set by the latest
\* call, whose timer is the youngest of those pending: the firing of any
\* older timer leaves the status as it is.
OlderTimerSparesMessage ==
  [][\A i \in 1..Len(statusTimers) :
       (TimerFires(i) /\ i < Len(statusTimers)) => saveStatus' = saveStatus]_vars
====
